---- MODULE Spec2Model ----
(***************************************************************************)
(* Text-metrics engine of text-counter-pro                                  *)
(* (src/scripts/modules/text-processor.js), its fuzzy word search           *)
(* (src/scripts/modules/fuzzy-search.js) and the pages that show them       *)
(* (classes App, ReadingTime and ReadabilityCalculator).                    *)
(*                                                                          *)
(* A JavaScript string is a sequence of characters; a character is a        *)
(* one-element TLA+ string, except for the two non-ASCII characters the     *)
(* engine treats specially, which are written by their code point           *)
(* ("U+2026" is the horizontal ellipsis, "U+212A" the Kelvin sign).         *)
(* A JavaScript number is a record [k, n, d]: k is "finite" (the rational   *)
(* n/d in lowest terms, d > 0), "NaN", "Infinity" or "-Infinity".           *)
(***************************************************************************)
EXTENDS Integers, Sequences, FiniteSets, TLC

VARIABLES
    argKind,         \* typeof of the value passed as text ("string", "null", ...)
    text,            \* the characters of the text argument (<<>> unless a string)
    wordsPerMinute,  \* the wordsPerMinute argument
    called,          \* the engine function called last ("none" before any call)
    result,          \* the value it returned
    threw,           \* TRUE when the call ended in a TypeError instead
    query,           \* the characters of fuzzySearch's query argument
    wordFrequencies, \* fuzzySearch's table: a sequence of <<word, frequency>>
    limit,           \* fuzzySearch's limit argument
    inputValue,      \* the value of the page's text-input element
    inputEvents,     \* the number of input events the page has handled
    timers,          \* the timeouts the browser holds: [id, func, args, remaining]
    timer,           \* the variable timer of each debounced function (0: undefined)
    timerIds,        \* the number of timeouts set so far
    display,         \* the text content of the page's result elements
    readingSpeed,    \* the field readingSpeed of the page's ReadingTime object
    textReadability  \* what window.textReadability has answered, for each text

arguments == <<argKind, text, wordsPerMinute, query, wordFrequencies, limit>>

page == <<inputValue, inputEvents, timers, timer, timerIds, display, readingSpeed,
          textReadability>>

vars == <<arguments, called, result, threw, page>>

----------------------------------------------------------------------------
(* Bounds of the model *)

MaxLen == 4        \* longest enumerated text, in characters
MaxWords == 12     \* most words of a generated "a a a ..." text
MaxWpm == 4        \* largest |wordsPerMinute| enumerated

----------------------------------------------------------------------------
(* Characters *)

Ellipsis == "U+2026"
Kelvin == "U+212A"
Backslash == "\\"

LowerSeq ==
    <<"a","b","c","d","e","f","g","h","i","j","k","l","m",
      "n","o","p","q","r","s","t","u","v","w","x","y","z">>

UpperSeq ==
    <<"A","B","C","D","E","F","G","H","I","J","K","L","M",
      "N","O","P","Q","R","S","T","U","V","W","X","Y","Z">>

DigitSeq == <<"0","1","2","3","4","5","6","7","8","9">>

Range(s) == {s[i] : i \in DOMAIN s}

LowerCase == Range(LowerSeq)
UpperCase == Range(UpperSeq)
Digits == Range(DigitSeq)

\* \w without the u flag: [A-Za-z0-9_], also under the i flag
WordChars == LowerCase \cup UpperCase \cup Digits \cup {"_"}

\* \s (and what String.prototype.trim strips)
WhiteSpace == {" ", "\t", "\n", "\r"}

\* what "." of a regular expression without the s flag does not match
LineTerminators == {"\n", "\r"}

\* String.prototype.toLowerCase, character by character
ToLowerChar(c) ==
    IF c \in UpperCase
    THEN LowerSeq[CHOOSE i \in DOMAIN UpperSeq : UpperSeq[i] = c]
    ELSE IF c = Kelvin THEN "k"
    ELSE c

toLowerCase(s) == [i \in DOMAIN s |-> ToLowerChar(s[i])]

TrimStart(s) ==
    IF \A i \in DOMAIN s : s[i] \in WhiteSpace THEN <<>>
    ELSE SubSeq(s, CHOOSE i \in DOMAIN s :
                      /\ s[i] \notin WhiteSpace
                      /\ \A j \in 1..(i-1) : s[j] \in WhiteSpace, Len(s))

TrimEnd(s) ==
    IF \A i \in DOMAIN s : s[i] \in WhiteSpace THEN <<>>
    ELSE SubSeq(s, 1, CHOOSE i \in DOMAIN s :
                      /\ s[i] \notin WhiteSpace
                      /\ \A j \in (i+1)..Len(s) : s[j] \in WhiteSpace)

\* String.prototype.trim
trim(s) == TrimEnd(TrimStart(s))

endsWith(s, suffix) ==
    /\ Len(s) >= Len(suffix)
    /\ SubSeq(s, Len(s) - Len(suffix) + 1, Len(s)) = suffix

----------------------------------------------------------------------------
(* getWords: text.match(/(?:\b|\\.)\w[\w.'-]*(?=\b|\\.|$)/gi) || []          *)

IsWordAt(t, i) == i \in DOMAIN t /\ t[i] \in WordChars

\* \b holds just before the character at position p
WordBoundary(t, p) == IsWordAt(t, p - 1) # IsWordAt(t, p)

\* \\. : a backslash at p followed by any character but a line terminator
BackslashDot(t, p) ==
    /\ p \in DOMAIN t /\ t[p] = Backslash
    /\ (p + 1) \in DOMAIN t /\ t[p + 1] \notin LineTerminators

\* the lookahead (?=\b|\\.|$) just before position q
Lookahead(t, q) ==
    WordBoundary(t, q) \/ BackslashDot(t, q) \/ q = Len(t) + 1

\* [\w.'-]
TailChars == WordChars \cup {".", "'", "-"}

\* the position after the longest run of [\w.'-] that starts at p
RECURSIVE RunEnd(_, _)
RunEnd(t, p) ==
    IF p \in DOMAIN t /\ t[p] \in TailChars THEN RunEnd(t, p + 1) ELSE p

\* [\w.'-]*(?=...) from position s: the greedy star gives characters back
\* until the lookahead holds; 0 when it holds nowhere
TailEnd(t, s) ==
    LET ends == {q \in s..RunEnd(t, s) : Lookahead(t, q)}
    IN  IF ends = {} THEN 0
        ELSE CHOOSE q \in ends : \A q2 \in ends : q2 <= q

\* the end (exclusive) of the match that starts at p, 0 when there is none:
\* first the alternative \b, then the alternative \\.
MatchEnd(t, p) ==
    LET viaBoundary ==
            IF WordBoundary(t, p) /\ IsWordAt(t, p) THEN TailEnd(t, p + 1) ELSE 0
        viaBackslash ==
            IF BackslashDot(t, p) /\ IsWordAt(t, p + 2) THEN TailEnd(t, p + 3) ELSE 0
    IN  IF viaBoundary # 0 THEN viaBoundary ELSE viaBackslash

\* the g flag: the positions are tried from left to right, and a match moves
\* the search to its end. ScanRange tries the positions lo..hi, those before
\* resume lying inside an earlier match; it gives <<matches, resume>>. The
\* range is halved so that the evaluation stays shallow on long texts.
RECURSIVE ScanRange(_, _, _, _)
ScanRange(t, lo, hi, resume) ==
    IF lo > hi THEN <<<<>>, resume>>
    ELSE IF lo = hi
    THEN LET end == MatchEnd(t, lo)
         IN  IF lo < resume \/ end = 0 THEN <<<<>>, resume>>
             ELSE << <<SubSeq(t, lo, end - 1)>>, end >>
    ELSE LET mid == (lo + hi) \div 2
             left == ScanRange(t, lo, mid, resume)
             right == ScanRange(t, mid + 1, hi, left[2])
         IN  <<left[1] \o right[1], right[2]>>

getWords(t) == ScanRange(t, 1, Len(t), 1)[1]

getWordCount(t) == Len(getWords(t))

----------------------------------------------------------------------------
(* getSentences *)

\* the characters of a string literal (ASCII only)
Chars(str) == [i \in 1..Len(str) |-> SubSeq(str, i, i)]

\* the abbreviations set built at the top of getSentences
Abbreviations ==
    {Chars(a) : a \in
        {"mr", "mrs", "ms", "dr", "prof", "sr", "jr", "capt", "gen", "col",
         "maj", "lt",
         "vs", "etc", "inc", "ltd", "corp", "co", "llc", "llp",
         "st", "ave", "blvd", "rd", "apt", "no", "vol", "pp", "ch", "sec",
         "fig", "ref",
         "i.e", "e.g", "cf", "al", "approx", "ca", "circa", "est", "max", "min",
         "jan", "feb", "mar", "apr", "may", "jun", "jul", "aug", "sep", "oct",
         "nov", "dec", "mon", "tue", "wed", "thu", "fri", "sat", "sun",
         "ft", "in", "lb", "oz", "kg", "cm", "mm", "km", "mph", "rpm",
         "gov", "dept", "div", "assn", "org", "admin"}}

Terminators == {".", "!", "?"}

\* the position after the longest run of characters of set S that starts at p
RECURSIVE SpanEnd(_, _, _)
SpanEnd(t, p, S) ==
    IF p \in DOMAIN t /\ t[p] \in S THEN SpanEnd(t, p + 1, S) ELSE p

\* text.replace(/\s+/g, " ")
RECURSIVE CollapseWhitespace(_, _)
CollapseWhitespace(t, p) ==
    IF p > Len(t) THEN <<>>
    ELSE IF t[p] \in WhiteSpace
         THEN <<" ">> \o CollapseWhitespace(t, SpanEnd(t, p, WhiteSpace))
         ELSE <<t[p]>> \o CollapseWhitespace(t, p + 1)

\* sentenceRegex /([.!?]+|\.\.\.|...)/g tried at position q: the end
\* (exclusive) of the match, 0 when there is none. The first alternative
\* takes every run of periods, so the second never decides.
SentenceDelimiterEnd(t, q) ==
    IF t[q] \in Terminators THEN SpanEnd(t, q, Terminators)
    ELSE IF t[q] = Ellipsis THEN q + 1
    ELSE 0

\* String.prototype.split with sentenceRegex, whose capture group puts the
\* delimiters in the result; p is where the current piece starts, q where
\* the next match is looked for
RECURSIVE SplitSentenceParts(_, _, _)
SplitSentenceParts(t, p, q) ==
    IF q > Len(t) THEN <<SubSeq(t, p, Len(t))>>
    ELSE LET e == SentenceDelimiterEnd(t, q)
         IN  IF e = 0 THEN SplitSentenceParts(t, p, q + 1)
             ELSE <<SubSeq(t, p, q - 1), SubSeq(t, q, e - 1)>>
                      \o SplitSentenceParts(t, e, e)

\* String.prototype.split(/\s+/)
RECURSIVE SplitWhitespace(_, _, _)
SplitWhitespace(t, p, q) ==
    IF q > Len(t) THEN <<SubSeq(t, p, Len(t))>>
    ELSE IF t[q] \in WhiteSpace
         THEN <<SubSeq(t, p, q - 1)>>
                  \o SplitWhitespace(t, SpanEnd(t, q, WhiteSpace),
                                        SpanEnd(t, q, WhiteSpace))
         ELSE SplitWhitespace(t, p, q + 1)

\* sentence.replace(/[.!?]+$/, "")
RECURSIVE StripTrailingTerminators(_)
StripTrailingTerminators(s) ==
    IF s # <<>> /\ s[Len(s)] \in Terminators
    THEN StripTrailingTerminators(SubSeq(s, 1, Len(s) - 1))
    ELSE s

\* /^[.!?]+$|^\.\.\.$|^...$/.test(part)
IsPunctuationPart(part) ==
    \/ part # <<>> /\ \A i \in DOMAIN part : part[i] \in Terminators
    \/ part = <<Ellipsis>>

\* isJustPunctuation with the class [.!?] alone
isJustPunctuation_TerminatorsOnly(str) ==
    /\ str # <<>>
    /\ \A i \in DOMAIN str : str[i] \in Terminators

\* isJustPunctuation with a pattern that is not anchored: true of a string
\* that holds any of the characters
isJustPunctuation_Unanchored(str) ==
    \E i \in DOMAIN str : str[i] \in Terminators \cup {Ellipsis} \cup WhiteSpace

\* isJustPunctuation: /^[.!?...\s]+$/.test(str), the class also holding the
\* ellipsis character
isJustPunctuation(str) ==
    /\ str # <<>>
    /\ \A i \in DOMAIN str : str[i] \in Terminators \cup {Ellipsis} \cup WhiteSpace

\* shouldEndSentence with every test but the one on the abbreviation set
shouldEndSentence_NoAbbreviations(sentence, abbreviations) ==
    IF endsWith(sentence, <<".", ".", ".">>) \/ endsWith(sentence, <<Ellipsis>>)
    THEN TRUE
    ELSE IF sentence # <<>> /\ sentence[Len(sentence)] \in {"!", "?"}
    THEN TRUE
    ELSE IF endsWith(sentence, <<".">>)
    THEN LET words == SplitWhitespace(StripTrailingTerminators(sentence), 1, 1)
             lastWord == words[Len(words)]
             cleanLastWord ==
                 SelectSeq(toLowerCase(lastWord), LAMBDA c : c \in LowerCase)
         IN  IF lastWord = <<>> THEN TRUE
             ELSE IF Len(cleanLastWord) = 1 THEN FALSE
             ELSE IF Len(lastWord) <= 4
                     /\ \A i \in DOMAIN lastWord : lastWord[i] \in UpperCase
             THEN FALSE
             ELSE IF cleanLastWord # <<>>
                     /\ \A i \in DOMAIN cleanLastWord : cleanLastWord[i] \in Digits
             THEN FALSE
             ELSE TRUE
    ELSE FALSE

\* shouldEndSentence without the test /[!?]$/
shouldEndSentence_NoExclamation(sentence, abbreviations) ==
    IF endsWith(sentence, <<".", ".", ".">>) \/ endsWith(sentence, <<Ellipsis>>)
    THEN TRUE
    ELSE IF endsWith(sentence, <<".">>)
    THEN LET words == SplitWhitespace(StripTrailingTerminators(sentence), 1, 1)
             lastWord == words[Len(words)]
             cleanLastWord ==
                 SelectSeq(toLowerCase(lastWord), LAMBDA c : c \in LowerCase)
         IN  IF lastWord = <<>> THEN TRUE
             ELSE IF cleanLastWord \in abbreviations THEN FALSE
             ELSE IF Len(cleanLastWord) = 1 THEN FALSE
             ELSE IF Len(lastWord) <= 4
                     /\ \A i \in DOMAIN lastWord : lastWord[i] \in UpperCase
             THEN FALSE
             ELSE IF cleanLastWord # <<>>
                     /\ \A i \in DOMAIN cleanLastWord : cleanLastWord[i] \in Digits
             THEN FALSE
             ELSE TRUE
    ELSE FALSE

shouldEndSentence(sentence, abbreviations) ==
    \* ellipses
    IF endsWith(sentence, <<".", ".", ".">>) \/ endsWith(sentence, <<Ellipsis>>)
    THEN TRUE
    \* /[!?]$/
    ELSE IF sentence # <<>> /\ sentence[Len(sentence)] \in {"!", "?"}
    THEN TRUE
    ELSE IF endsWith(sentence, <<".">>)
    THEN LET words == SplitWhitespace(StripTrailingTerminators(sentence), 1, 1)
             lastWord == words[Len(words)]
             \* lastWord.toLowerCase().replace(/[^a-z]/g, "")
             cleanLastWord ==
                 SelectSeq(toLowerCase(lastWord), LAMBDA c : c \in LowerCase)
         IN  IF lastWord = <<>> THEN TRUE
             ELSE IF cleanLastWord \in abbreviations THEN FALSE
             \* /^[a-z]$/i
             ELSE IF Len(cleanLastWord) = 1 THEN FALSE
             \* lastWord.length <= 4 && /^[A-Z]+$/
             ELSE IF Len(lastWord) <= 4
                     /\ \A i \in DOMAIN lastWord : lastWord[i] \in UpperCase
             THEN FALSE
             \* /^\d+$/ on cleanLastWord, which holds letters a-z only
             ELSE IF cleanLastWord # <<>>
                     /\ \A i \in DOMAIN cleanLastWord : cleanLastWord[i] \in Digits
             THEN FALSE
             ELSE TRUE
    ELSE FALSE

\* the loop over parts, from part i on, with the sentences pushed so far
\* and the currentSentence buffer; ends with the flush of what remains
RECURSIVE SentenceLoop(_, _, _, _)
SentenceLoop(parts, i, sentences, currentSentence) ==
    IF i > Len(parts)
    THEN IF trim(currentSentence) # <<>> /\ ~isJustPunctuation(trim(currentSentence))
         THEN Append(sentences, trim(currentSentence))
         ELSE sentences
    ELSE LET part == trim(parts[i])
         IN  IF IsPunctuationPart(part)
             THEN LET ended == currentSentence \o part
                      cleanSentence == trim(ended)
                  IN  IF shouldEndSentence(ended, Abbreviations)
                      THEN SentenceLoop(parts, i + 1,
                               IF cleanSentence # <<>> /\ ~isJustPunctuation(cleanSentence)
                               THEN Append(sentences, cleanSentence)
                               ELSE sentences,
                               <<>>)
                      ELSE SentenceLoop(parts, i + 1, sentences,
                               IF i < Len(parts) THEN ended \o <<" ">> ELSE ended)
             ELSE SentenceLoop(parts, i + 1, sentences,
                      (IF currentSentence # <<>> /\ ~endsWith(currentSentence, <<" ">>)
                       THEN currentSentence \o <<" ">>
                       ELSE currentSentence) \o part)

\* getSentences for a string argument
getSentences(t) ==
    IF t = <<>> THEN <<>>
    ELSE LET normalizedText == CollapseWhitespace(trim(t), 1)
             parts == SelectSeq(SplitSentenceParts(normalizedText, 1, 1),
                                LAMBDA part : trim(part) # <<>>)
         IN  SentenceLoop(parts, 1, <<>>, <<>>)

getSentenceCount(t) == Len(getSentences(t))

----------------------------------------------------------------------------
(* getParagraphs: text.split(/\n\s*/).filter((p) => p.trim())               *)

\* String.prototype.split(/\n\s*/)
RECURSIVE SplitParagraphs(_, _, _)
SplitParagraphs(t, p, q) ==
    IF q > Len(t) THEN <<SubSeq(t, p, Len(t))>>
    ELSE IF t[q] = "\n"
         THEN <<SubSeq(t, p, q - 1)>>
                  \o SplitParagraphs(t, SpanEnd(t, q + 1, WhiteSpace),
                                        SpanEnd(t, q + 1, WhiteSpace))
         ELSE SplitParagraphs(t, p, q + 1)

\* getParagraphs without the filter of blank pieces
getParagraphs_NoFilter(t) == SplitParagraphs(t, 1, 1)

getParagraphs(t) ==
    SelectSeq(SplitParagraphs(t, 1, 1), LAMBDA p : trim(p) # <<>>)

getParagraphCount(t) == Len(getParagraphs(t))

----------------------------------------------------------------------------
(* calculateWordFrequency *)

\* wordFrequencies.set(word, (wordFrequencies.get(word) || 0) + 1): a Map
\* keeps its keys in insertion order, and setting a present key keeps its place
MapIncrement(entries, word) ==
    IF \E i \in DOMAIN entries : entries[i][1] = word
    THEN [i \in DOMAIN entries |->
             IF entries[i][1] = word THEN <<word, entries[i][2] + 1>> ELSE entries[i]]
    ELSE Append(entries, <<word, 1>>)

RECURSIVE CountWords(_, _, _)
CountWords(words, i, entries) ==
    IF i > Len(words) THEN entries
    ELSE CountWords(words, i + 1, MapIncrement(entries, words[i]))

\* a sort by count that puts an entry before the entries of the same count
RECURSIVE sortByCountDescending_Unstable(_)
sortByCountDescending_Unstable(entries) ==
    IF entries = <<>> THEN <<>>
    ELSE LET sorted == sortByCountDescending_Unstable(SubSeq(entries, 1, Len(entries) - 1))
             e == entries[Len(entries)]
             k == Cardinality({i \in DOMAIN sorted : sorted[i][2] > e[2]})
         IN  SubSeq(sorted, 1, k) \o <<e>> \o SubSeq(sorted, k + 1, Len(sorted))

\* Array.prototype.sort((a, b) => b[1] - a[1]): a stable sort, so an entry
\* goes after every entry whose count is at least its own
RECURSIVE sortByCountDescending(_)
sortByCountDescending(entries) ==
    IF entries = <<>> THEN <<>>
    ELSE LET sorted == sortByCountDescending(SubSeq(entries, 1, Len(entries) - 1))
             e == entries[Len(entries)]
             k == Cardinality({i \in DOMAIN sorted : sorted[i][2] >= e[2]})
         IN  SubSeq(sorted, 1, k) \o <<e>> \o SubSeq(sorted, k + 1, Len(sorted))

\* calculateWordFrequency for a string argument
calculateWordFrequency(t) ==
    IF t = <<>> THEN <<>>
    ELSE LET words == getWords(toLowerCase(t))
         IN  IF Len(words) = 0 THEN <<>>
             ELSE sortByCountDescending(CountWords(words, 1, <<>>))

----------------------------------------------------------------------------
(* Numbers *)

Abs(i) == IF i < 0 THEN -i ELSE i

RECURSIVE GCD(_, _)
GCD(a, b) == IF b = 0 THEN a ELSE GCD(b, a % b)

NaN == [k |-> "NaN", n |-> 0, d |-> 1]
Infinity == [k |-> "Infinity", n |-> 1, d |-> 1]
NegInfinity == [k |-> "-Infinity", n |-> -1, d |-> 1]

\* the finite number n/d, d # 0
Finite(n, d) ==
    LET g == GCD(Abs(n), Abs(d))
        sign == IF d < 0 THEN -1 ELSE 1
    IN  [k |-> "finite", n |-> (sign * n) \div g, d |-> (sign * d) \div g]

\* a / b for integers a and b
Divide(a, b) ==
    IF b # 0 THEN Finite(a, b)
    ELSE IF a = 0 THEN NaN
    ELSE IF a > 0 THEN Infinity
    ELSE NegInfinity

\* the decimal digits of a natural number
RECURSIVE DigitsOf(_)
DigitsOf(i) ==
    IF i < 10 THEN <<DigitSeq[i + 1]>>
    ELSE DigitsOf(i \div 10) \o <<DigitSeq[(i % 10) + 1]>>

\* `${i}` for an integer i
NumberToString(i) == IF i < 0 THEN <<"-">> \o DigitsOf(-i) ELSE DigitsOf(i)

----------------------------------------------------------------------------
(* Derived metrics *)

DefaultWordsPerMinute == 250

\* getAverageWordsPerSentence for a string argument
getAverageWordsPerSentence(t) ==
    IF Len(trim(t)) > 0
    THEN Divide(getWordCount(t), getSentenceCount(t))
    ELSE Finite(0, 1)

\* calculateReadingTime for a string argument and an integer wordsPerMinute
calculateReadingTime(t, wpm) == Divide(getWordCount(t), wpm)

\* FormatReadingTime with the seconds taken from the whole time, the
\* minutes not subtracted
FormatReadingTime_SecondsOfTotal(totalTime) ==
    LET minutes0 == totalTime.n \div totalTime.d
        seconds == (120 * totalTime.n + totalTime.d) \div (2 * totalTime.d)
        hours0 == IF minutes0 >= 60 THEN minutes0 \div 60 ELSE 0
        minutes == IF minutes0 >= 60 THEN minutes0 - hours0 * 60 ELSE minutes0
        days == IF hours0 >= 24 THEN hours0 \div 24 ELSE 0
        hours == IF hours0 >= 24 THEN minutes - days * 24 ELSE hours0
    IN  IF days > 0
        THEN NumberToString(days) \o <<"d", " ">> \o NumberToString(hours) \o <<"h">>
        ELSE IF hours > 0
        THEN NumberToString(hours) \o <<"h", " ">> \o NumberToString(minutes) \o <<"m">>
        ELSE NumberToString(minutes) \o <<"m", " ">> \o NumberToString(seconds) \o <<"s">>

\* getReadingTimeReadable from "let seconds = 0" on, for a finite totalTime.
\* The quotient is kept exact. Double arithmetic gives the same minutes and
\* seconds for every word count and speed the specifications enumerate; where
\* the exact seconds are a half (29 words at 24 per minute: 12.5) the double
\* product can fall just below it and round down.
FormatReadingTime(totalTime) ==
    LET \* Math.floor(totalTime)
        minutes0 == totalTime.n \div totalTime.d
        \* Math.round((totalTime - minutes) * 60), halves rounded up
        seconds == (120 * (totalTime.n - minutes0 * totalTime.d) + totalTime.d)
                       \div (2 * totalTime.d)
        hours0 == IF minutes0 >= 60 THEN minutes0 \div 60 ELSE 0
        minutes == IF minutes0 >= 60 THEN minutes0 - hours0 * 60 ELSE minutes0
        days == IF hours0 >= 24 THEN hours0 \div 24 ELSE 0
        hours == IF hours0 >= 24 THEN minutes - days * 24 ELSE hours0
    IN  IF days > 0
        THEN NumberToString(days) \o <<"d", " ">> \o NumberToString(hours) \o <<"h">>
        ELSE IF hours > 0
        THEN NumberToString(hours) \o <<"h", " ">> \o NumberToString(minutes) \o <<"m">>
        ELSE NumberToString(minutes) \o <<"m", " ">> \o NumberToString(seconds) \o <<"s">>

\* getReadingTimeReadable for a string argument and an integer wordsPerMinute:
\* !wordsPerMinute || +wordsPerMinute === 0 holds of the integer 0 alone
getReadingTimeReadable(t, wpm) ==
    IF wpm = 0 THEN Chars("0m 0s")
    ELSE FormatReadingTime(calculateReadingTime(t, wpm))

----------------------------------------------------------------------------
(* getPassiveVoicePercentage *)

\* the character sequences of a set of string literals
CharsOf(strs) == {Chars(str) : str \in strs}

AuxiliaryVerbs ==
    CharsOf({"am", "is", "are", "was", "were", "be", "been", "being",
             "have been", "has been", "had been", "will be", "would be",
             "can be", "could be", "may be", "might be", "must be",
             "should be", "shall be", "ought to be"})

PastParticipleEndings == CharsOf({"ed", "en", "ne", "wn", "nt"})

IrregularPastParticiples ==
    CharsOf({"done", "gone", "taken", "given", "seen", "known", "shown",
             "written", "spoken", "broken", "chosen", "frozen", "stolen",
             "beaten", "eaten", "fallen", "forgotten", "hidden", "ridden",
             "risen", "driven", "thrown", "grown", "blown", "flown", "drawn",
             "worn", "torn", "born", "sworn", "cut", "hit", "put", "shut",
             "hurt", "set", "let", "bet", "cost", "burst", "cast", "split",
             "spread", "read", "led", "fed", "held", "told", "sold", "built",
             "sent", "spent", "lent", "bent", "kept", "slept", "wept",
             "swept", "felt", "dealt", "meant", "learnt", "burnt", "heard",
             "made", "paid", "laid", "said", "stood", "understood", "found",
             "bound", "wound", "hung", "sung", "rung", "won", "run", "begun",
             "come", "become", "overcome", "brought", "bought", "thought",
             "fought", "caught", "taught", "sought", "wrought"})

\* the words the search for a participle steps over
SkippedAdverbs ==
    CharsOf({"not", "never", "always", "often", "usually", "sometimes",
             "frequently", "rarely", "seldom", "already", "still", "just",
             "recently", "finally", "completely", "totally", "fully",
             "partially", "briefly", "quickly", "slowly", "carefully",
             "properly", "correctly", "incorrectly", "well", "badly"})

\* /^(to|will|would|can|could|may|might|must|should|shall)$/
StopVerbs ==
    CharsOf({"to", "will", "would", "can", "could", "may", "might", "must",
             "should", "shall"})

\* cleanWord: word.replace(/[^\w]/g, '').toLowerCase()
cleanWord(word) == toLowerCase(SelectSeq(word, LAMBDA c : c \in WordChars))

\* the words of a sentence: getWords(sentence.toLowerCase()).map(cleanWord)
\*                              .filter(w => w.length > 0)
SentenceWords(sentence) ==
    LET tokens == getWords(toLowerCase(sentence))
    IN  SelectSeq([i \in DOMAIN tokens |-> cleanWord(tokens[i])],
                  LAMBDA w : Len(w) > 0)

\* `${words[i]} ${words[i + 1]} ...` over count words
RECURSIVE JoinWords(_, _, _)
JoinWords(words, i, count) ==
    IF count = 1 THEN words[i]
    ELSE words[i] \o <<" ">> \o JoinWords(words, i + 1, count - 1)

\* the loop that looks for an auxiliary: the position (from 1) of the first
\* word that is an auxiliary or begins a two- or three-word one, 0 if none
RECURSIVE AuxiliaryIndex(_, _)
AuxiliaryIndex(words, i) ==
    IF i > Len(words) THEN 0
    ELSE IF \E count \in 1..3 : /\ i + count - 1 <= Len(words)
                                /\ JoinWords(words, i, count) \in AuxiliaryVerbs
    THEN i
    ELSE AuxiliaryIndex(words, i + 1)

\* the loop that looks for a past participle, from the word at position i
RECURSIVE HasPastParticiple(_, _, _)
HasPastParticiple(words, auxiliaryIndex, i) ==
    IF i > Len(words) THEN FALSE
    ELSE IF words[i] \in SkippedAdverbs
    THEN HasPastParticiple(words, auxiliaryIndex, i + 1)
    ELSE IF words[i] \in IrregularPastParticiples THEN TRUE
    ELSE IF \E ending \in PastParticipleEndings :
                /\ endsWith(words[i], ending)
                /\ Len(words[i]) > Len(ending)
                /\ IF ending = Chars("ed") THEN Len(words[i]) > 3
                   ELSE Len(words[i]) > 2
    THEN TRUE
    ELSE IF words[i] \in StopVerbs THEN FALSE
    ELSE IF i - auxiliaryIndex > 5 THEN FALSE
    ELSE HasPastParticiple(words, auxiliaryIndex, i + 1)

\* a sentence counted whenever a participle follows its first word, with or
\* without an auxiliary
IsPassive_WithoutAuxiliary(sentence) ==
    LET words == SentenceWords(sentence)
    IN  /\ Len(words) >= 2
        /\ HasPastParticiple(words, 1, 2)

\* the body of sentences.forEach: whether the sentence adds to passiveCount
IsPassive(sentence) ==
    LET words == SentenceWords(sentence)
        auxiliaryIndex == AuxiliaryIndex(words, 1)
    IN  /\ Len(words) >= 2
        /\ auxiliaryIndex > 0
        /\ HasPastParticiple(words, auxiliaryIndex, auxiliaryIndex + 1)

\* getPassiveVoicePercentage for a string argument: the quotient is exact,
\* Math.round(percentage * 100) rounds halves up
getPassiveVoicePercentage(t) ==
    LET sentences == getSentences(t)
        passiveCount == Cardinality({i \in DOMAIN sentences : IsPassive(sentences[i])})
    IN  IF Len(sentences) = 0 THEN Finite(0, 1)
        ELSE Divide((20000 * passiveCount + Len(sentences)) \div (2 * Len(sentences)),
                    100)

----------------------------------------------------------------------------
(* Character counts: (text.match(/class/g) || []).length *)

\* /[a-zA-Z]/g
getLettersCharCount(t) ==
    Len(SelectSeq(t, LAMBDA c : c \in LowerCase \cup UpperCase))

\* /\d/g
getNumbersCharCount(t) == Len(SelectSeq(t, LAMBDA c : c \in Digits))

\* /\s/g
getWhitespaceCharCount(t) == Len(SelectSeq(t, LAMBDA c : c \in WhiteSpace))

\* /[.,;:!?'"()[\]{}-]/g
getPunctuationCharCount(t) ==
    Len(SelectSeq(t, LAMBDA c : c \in {".", ",", ";", ":", "!", "?", "'", "\"", "(", ")",
                                       "[", "]", "{", "}", "-"}))

\* /[^a-zA-Z0-9\s.,;:!?'"()[\]{}\-_]/g
getSpecialCharCount(t) ==
    Len(SelectSeq(t, LAMBDA c :
            c \notin LowerCase \cup UpperCase \cup Digits \cup WhiteSpace
                         \cup {".", ",", ";", ":", "!", "?", "'", "\"", "(", ")",
                               "[", "]", "{", "}", "-", "_"}))

\* a count of every y and Y, wherever it stands
getVowelCharCount_EveryY(t) ==
    Len(SelectSeq(t, LAMBDA c : c \in {"a", "e", "i", "o", "u", "A", "E", "I", "O", "U",
                                       "y", "Y"}))

\* matches of /[aeiouAEIOU]/g plus matches of /(?<!\b)[yY](?![aeiouAEIOU])/g:
\* the second pattern matches one character, at a position that is no word
\* boundary and is not followed by one of the ten vowels
getVowelCharCount(t) ==
    LET vowels == {"a", "e", "i", "o", "u", "A", "E", "I", "O", "U"}
        matches == SelectSeq(t, LAMBDA c : c \in vowels)
        yMatches == {i \in DOMAIN t : /\ ~WordBoundary(t, i)
                                      /\ t[i] \in {"y", "Y"}
                                      /\ ~(i + 1 \in DOMAIN t /\ t[i + 1] \in vowels)}
    IN  Len(matches) + Cardinality(yMatches)

----------------------------------------------------------------------------
(* Fuzzy word search (fuzzy-search.js) *)

\* the default of fuzzySearch's limit parameter
DefaultLimit == 50

\* Math.min
Min(a, b) == IF a <= b THEN a ELSE b

\* a distance that charges a substitution for equal characters as well
levenshteinDistance_EqualCharactersCost(str1, str2) ==
    LET RECURSIVE FillRow(_, _, _)
        \* row j, of which the cells 0..Len(row)-1 are filled
        FillRow(previous, j, row) ==
            IF Len(row) = Len(str1) + 1 THEN row
            ELSE LET i == Len(row)
                     cost == 1
                 IN  FillRow(previous, j,
                             Append(row, Min(Min(row[i] + 1,            \* insertion
                                                 previous[i + 1] + 1),  \* deletion
                                             previous[i] + cost)))      \* substitution
        RECURSIVE FillRows(_, _)
        FillRows(j, previous) ==
            IF j > Len(str2) THEN previous
            ELSE FillRows(j + 1, FillRow(previous, j, <<j>>))
    IN  FillRows(1, [c \in 1..(Len(str1) + 1) |-> c - 1])[Len(str1) + 1]

\* levenshteinDistance: the matrix is filled row by row, each row from left
\* to right; a row is kept as the sequence of its cells 0..str1.length
levenshteinDistance(str1, str2) ==
    LET RECURSIVE FillRow(_, _, _)
        \* row j, of which the cells 0..Len(row)-1 are filled
        FillRow(previous, j, row) ==
            IF Len(row) = Len(str1) + 1 THEN row
            ELSE LET i == Len(row)
                     cost == IF str1[i] = str2[j] THEN 0 ELSE 1
                 IN  FillRow(previous, j,
                             Append(row, Min(Min(row[i] + 1,            \* insertion
                                                 previous[i + 1] + 1),  \* deletion
                                             previous[i] + cost)))      \* substitution
        RECURSIVE FillRows(_, _)
        FillRows(j, previous) ==
            IF j > Len(str2) THEN previous
            ELSE FillRows(j + 1, FillRow(previous, j, <<j>>))
    IN  FillRows(1, [c \in 1..(Len(str1) + 1) |-> c - 1])[Len(str1) + 1]

\* calculateSimilarity, as an exact quotient
calculateSimilarity(str1, str2) ==
    LET longer == IF Len(str1) > Len(str2) THEN str1 ELSE str2
        shorter == IF Len(str1) > Len(str2) THEN str2 ELSE str1
    IN  IF Len(longer) = 0 THEN Finite(1, 1)
        ELSE Divide(Len(longer) - levenshteinDistance(longer, shorter), Len(longer))

\* term.replace(/[.*+?^${}()|[\]\\]/g, '\\$&')
RECURSIVE EscapeRegExp(_)
EscapeRegExp(term) ==
    IF term = <<>> THEN <<>>
    ELSE (IF Head(term) \in {".", "*", "+", "?", "^", "$", "{", "}", "(", ")", "|",
                             "[", "]", Backslash}
          THEN <<Backslash, Head(term)>>
          ELSE <<Head(term)>>) \o EscapeRegExp(Tail(term))

\* s.replace(/\\c/g, replacement): every backslash followed by the character
\* c, found from left to right, becomes the replacement
RECURSIVE ReplaceEscaped(_, _, _)
ReplaceEscaped(s, c, replacement) ==
    IF Len(s) < 2 THEN s
    ELSE IF s[1] = Backslash /\ s[2] = c
    THEN replacement \o ReplaceEscaped(SubSeq(s, 3, Len(s)), c, replacement)
    ELSE <<s[1]>> \o ReplaceEscaped(Tail(s), c, replacement)

\* new RegExp(source): the atoms of a source createPattern builds. An atom
\* is <<"char", c>> (c itself, written plain or escaped), <<"any">> (a dot)
\* or <<"star">> (a dot under a star).
RECURSIVE ParsePattern(_)
ParsePattern(source) ==
    IF source = <<>> THEN <<>>
    ELSE IF source[1] = Backslash
    THEN <<(<<"char", source[2]>>)>> \o ParsePattern(SubSeq(source, 3, Len(source)))
    ELSE IF source[1] = "." /\ Len(source) >= 2 /\ source[2] = "*"
    THEN <<(<<"star">>)>> \o ParsePattern(SubSeq(source, 3, Len(source)))
    ELSE IF source[1] = "."
    THEN <<(<<"any">>)>> \o ParsePattern(Tail(source))
    ELSE <<(<<"char", source[1]>>)>> \o ParsePattern(Tail(source))

\* createPattern: the term escaped, then \* made .* and \? made . , then
\* compiled
createPattern(term) ==
    LET escaped == EscapeRegExp(term)
        withWildcards == ReplaceEscaped(ReplaceEscaped(escaped, "*", <<".", "*">>),
                                        "?", <<".">>)
    IN  ParsePattern(withWildcards)

\* Canonicalize of a regular expression with the i flag and without the u
\* flag: the upper-case form, unless that would turn a non-ASCII character
\* into an ASCII one (the Kelvin sign stays itself)
Canonicalize(c) ==
    IF c \in LowerCase
    THEN UpperSeq[CHOOSE i \in DOMAIN LowerSeq : LowerSeq[i] = c]
    ELSE c

\* whether the atoms from the k-th on match the word from position j on
RECURSIVE MatchesAt(_, _, _, _)
MatchesAt(pattern, k, word, j) ==
    IF k > Len(pattern) THEN TRUE
    ELSE IF pattern[k][1] = "star"
    THEN \E e \in j..(Len(word) + 1) :
             /\ \A x \in j..(e - 1) : word[x] \notin LineTerminators
             /\ MatchesAt(pattern, k + 1, word, e)
    ELSE /\ j <= Len(word)
         /\ IF pattern[k][1] = "any" THEN word[j] \notin LineTerminators
            ELSE Canonicalize(word[j]) = Canonicalize(pattern[k][2])
         /\ MatchesAt(pattern, k + 1, word, j + 1)

\* pattern.test(word): the pattern is not anchored
test(pattern, word) == \E j \in 1..(Len(word) + 1) : MatchesAt(pattern, 1, word, j)

startsWith(s, prefix) ==
    /\ Len(s) >= Len(prefix)
    /\ SubSeq(s, 1, Len(prefix)) = prefix

includes(s, part) ==
    \E j \in 1..(Len(s) - Len(part) + 1) : SubSeq(s, j, j + Len(part) - 1) = part

\* a score that takes a similarity of 0.6 for a fuzzy match
Score_SimilarityFromSixTenths(word, frequency, searchTerm, pattern) ==
    LET lowerWord == toLowerCase(word)
        similarity == calculateSimilarity(lowerWord, searchTerm)
    IN  IF lowerWord = searchTerm THEN 1000 + frequency
        ELSE IF startsWith(lowerWord, searchTerm) THEN 800 + frequency
        ELSE IF includes(lowerWord, searchTerm) THEN 600 + frequency
        ELSE IF test(pattern, word) THEN 400 + frequency
        ELSE IF 5 * similarity.n >= 3 * similarity.d
        THEN ((similarity.n * 200) \div similarity.d) + frequency
        ELSE 0

\* the score the loop of fuzzySearch gives one entry of the table; an entry
\* is kept when its score is positive
Score(word, frequency, searchTerm, pattern) ==
    LET lowerWord == toLowerCase(word)
        similarity == calculateSimilarity(lowerWord, searchTerm)
    IN  IF lowerWord = searchTerm THEN 1000 + frequency
        ELSE IF startsWith(lowerWord, searchTerm) THEN 800 + frequency
        ELSE IF includes(lowerWord, searchTerm) THEN 600 + frequency
        ELSE IF test(pattern, word) THEN 400 + frequency
        \* similarity > 0.6, then Math.floor(similarity * 200) + frequency
        ELSE IF 5 * similarity.n > 3 * similarity.d
        THEN ((similarity.n * 200) \div similarity.d) + frequency
        ELSE 0

\* a sort by score that puts an entry before the entries of the same score
RECURSIVE sortByScoreDescending_Unstable(_)
sortByScoreDescending_Unstable(results) ==
    IF results = <<>> THEN <<>>
    ELSE LET sorted == sortByScoreDescending_Unstable(SubSeq(results, 1, Len(results) - 1))
             e == results[Len(results)]
             k == Cardinality({i \in DOMAIN sorted : sorted[i][3] > e[3]})
         IN  SubSeq(sorted, 1, k) \o <<e>> \o SubSeq(sorted, k + 1, Len(sorted))

\* results.sort((a, b) => b[2] - a[2]) over [word, frequency, score]: a
\* stable sort, so an entry goes after every entry scored at least as high
RECURSIVE sortByScoreDescending(_)
sortByScoreDescending(results) ==
    IF results = <<>> THEN <<>>
    ELSE LET sorted == sortByScoreDescending(SubSeq(results, 1, Len(results) - 1))
             e == results[Len(results)]
             k == Cardinality({i \in DOMAIN sorted : sorted[i][3] >= e[3]})
         IN  SubSeq(sorted, 1, k) \o <<e>> \o SubSeq(sorted, k + 1, Len(sorted))

\* array.slice(0, end) for an integer end >= 0
SliceTo(array, end) == SubSeq(array, 1, Min(end, Len(array)))

\* fuzzySearch for a string query, an array of [word, frequency] pairs and
\* an integer limit >= 0
fuzzySearch(q, table, max) ==
    IF Len(table) = 0 THEN <<>>
    ELSE IF q = <<>> \/ trim(q) = <<>> THEN SliceTo(table, max)
    ELSE LET searchTerm == trim(toLowerCase(q))
             pattern == createPattern(searchTerm)
             scored == [i \in DOMAIN table |->
                           <<table[i][1], table[i][2],
                             Score(table[i][1], table[i][2], searchTerm, pattern)>>]
             results == SelectSeq(scored, LAMBDA r : r[3] > 0)
             top == SliceTo(sortByScoreDescending(results), max)
         IN  [i \in DOMAIN top |-> <<top[i][1], top[i][2]>>]

----------------------------------------------------------------------------
(* The page (class App): its elements and its debounced analyses *)

\* the functions App.debounce wraps, and their timeouts in milliseconds
DebouncedFunctions == {"mediumLoadAnalysis", "heavyLoadAnalysis"}

MediumTimeout == 100

HeavyTimeout == 300

\* the elements the handlers write to
ResultElements ==
    {"char-count", "char-no-space-count", "reading-time", "avg-chars-word",
     "avg-words-sentence", "word-count", "sentence-count", "paragraph-count",
     "unique-word-count", "word-frequency-chart", "frequency-toggle", "clear-btn"}

\* what an element holds until a handler writes to it: the page's markup
Markup == [markup |-> TRUE]

\* element.textContent = chars
TextContent(chars) == [textContent |-> chars]

\* the page after new App() and init(): the input is emptied, no handler
\* has run, no timeout is set
PageLoaded ==
    /\ inputValue = <<>>
    /\ inputEvents = 0
    /\ timers = {}
    /\ timer = [f \in DebouncedFunctions |-> 0]
    /\ timerIds = 0
    /\ display = [e \in ResultElements |-> Markup]
    /\ readingSpeed = DefaultWordsPerMinute
    /\ textReadability = <<>>

getCharCount(t) == Len(t)

\* text.replace(/\s/g, "").length
getCharCountNoSpaces(t) == Len(SelectSeq(t, LAMBDA c : c \notin WhiteSpace))

getAverageCharsPerWord(t) ==
    IF Len(trim(t)) > 0 /\ getWordCount(t) > 0
    THEN Divide(getCharCountNoSpaces(t), getWordCount(t))
    ELSE Finite(0, 1)

\* Number.prototype.toLocaleString() of a number that is not negative, in
\* the en-US locale: groups of three digits, at most three decimals
toLocaleString(x) ==
    LET thousandths == (2000 * x.n + x.d) \div (2 * x.d)
        ThreeDigits(i) == <<DigitSeq[(i \div 100) + 1], DigitSeq[((i \div 10) % 10) + 1],
                            DigitSeq[(i % 10) + 1]>>
        RECURSIVE Grouped(_)
        Grouped(i) == IF i < 1000 THEN DigitsOf(i)
                      ELSE Grouped(i \div 1000) \o <<",">> \o ThreeDigits(i % 1000)
        RECURSIVE WithoutTrailingZeros(_)
        WithoutTrailingZeros(s) ==
            IF s # <<>> /\ s[Len(s)] = "0"
            THEN WithoutTrailingZeros(SubSeq(s, 1, Len(s) - 1)) ELSE s
    IN  IF x.k = "NaN" THEN Chars("NaN")
        ELSE IF x.k = "Infinity" THEN <<"U+221E">>
        ELSE Grouped(thousandths \div 1000)
                 \o (IF thousandths % 1000 = 0 THEN <<>>
                     ELSE <<".">> \o WithoutTrailingZeros(ThreeDigits(thousandths % 1000)))

\* the cheap calculations of handleInput and its write to the clear button
showCheapCalculations(shown, t) ==
    [shown EXCEPT
        !["clear-btn"] = [disabled |-> (t = <<>>)],
        !["char-count"] = TextContent(toLocaleString(Finite(getCharCount(t), 1))),
        !["char-no-space-count"] =
            TextContent(toLocaleString(Finite(getCharCountNoSpaces(t), 1))),
        !["reading-time"] = TextContent(getReadingTimeReadable(t, DefaultWordsPerMinute)),
        !["avg-chars-word"] = TextContent(toLocaleString(getAverageCharsPerWord(t))),
        !["avg-words-sentence"] = TextContent(toLocaleString(getAverageWordsPerSentence(t)))]

\* the function mediumLoadAnalysis debounces
mediumLoadAnalysis(shown, t) ==
    [shown EXCEPT
        !["word-count"] = TextContent(toLocaleString(Finite(getWordCount(t), 1))),
        !["sentence-count"] = TextContent(toLocaleString(Finite(getSentenceCount(t), 1))),
        !["paragraph-count"] = TextContent(toLocaleString(Finite(getParagraphCount(t), 1)))]

\* showWordFrequency, with clearWordFrequencyChart for a text without words
showWordFrequency(shown, t) ==
    LET sortedEntries == calculateWordFrequency(t)
        maxFrequency == sortedEntries[1][2]
    IN  IF Len(sortedEntries) = 0
        THEN [shown EXCEPT
                 !["unique-word-count"] = TextContent(<<"0">>),
                 !["frequency-toggle"] = [display |-> "none"],
                 !["word-frequency-chart"] = [placeholder |-> TRUE]]
        ELSE [shown EXCEPT
                 !["unique-word-count"] = TextContent(NumberToString(Len(sortedEntries))),
                 !["frequency-toggle"] =
                     [display |-> IF Len(sortedEntries) > 8 THEN "flex" ELSE "none"],
                 !["word-frequency-chart"] =
                     [bars |-> [i \in DOMAIN sortedEntries |->
                                   [word |-> sortedEntries[i][1],
                                    count |-> sortedEntries[i][2],
                                    \* (count / maxFrequency) * 100, kept exact
                                    width |-> Divide(100 * sortedEntries[i][2],
                                                     maxFrequency)]],
                      class |-> {"frequency-bars", "collapsed"}
                                    \cup (IF Len(sortedEntries) > 8 THEN {}
                                          ELSE {"expanded"})]]

\* the function heavyLoadAnalysis debounces
heavyLoadAnalysis(shown, t) == showWordFrequency(shown, t)

\* a debounced function that sets its timeout without clearing the last
debounce_WithoutClear(pending, handle, func, args, timeout, id) ==
    pending \cup {[id |-> id, func |-> func, args |-> args, remaining |-> timeout]}

\* a call of the function debounce(func, timeout) returns, timer being
\* handle: clearTimeout(timer), then timer = setTimeout(..., timeout), which
\* returns id. The value is the set of timeouts the browser then holds.
debounce(pending, handle, func, args, timeout, id) ==
    {tm \in pending : tm.id # handle}
        \cup {[id |-> id, func |-> func, args |-> args, remaining |-> timeout]}

----------------------------------------------------------------------------
(* The engine as a state machine: an argument is chosen, then the exported  *)
(* functions are called on it, in any order and any number of times.        *)

\* every string of at most n characters of alphabet A
Strings(A, n) == UNION {[1..k -> A] : k \in 0..n}

\* n copies of s
RECURSIVE Repeat(_, _)
Repeat(s, n) ==
    IF n = 0 THEN <<>>
    ELSE IF n % 2 = 0 THEN LET half == Repeat(s, n \div 2) IN half \o half
    ELSE s \o Repeat(s, n - 1)

NonStringKinds == {"null", "undefined", "number", "object"}

WordAlphabet == {"a", "b", "A", Kelvin, " ", ".", Backslash}

SentenceAlphabet == {"m", "A", "1", ".", "!", Ellipsis, " ", "\n"}

WordExamples == {Chars("b a b a c"), Chars("The cat sat. The CAT ran!")}

SentenceExamples ==
    {Chars("Dr. Smith went home."),
     Chars("Wait... What?! Really."),
     Chars("See Dr. Smith at 5 p.m. today! Ok."),
     Chars("It grew by approx. 5 cm. Then it stopped."),
     Chars("mm. m!"),
     Chars("Wait") \o <<Ellipsis>> \o Chars(" no. Stop!! Go?")}

NoCall ==
    /\ called = "none"
    /\ result = <<>>
    /\ threw = FALSE

\* no search has been asked for
NoSearch ==
    /\ query = <<>>
    /\ wordFrequencies = <<>>
    /\ limit = DefaultLimit

InitArgument(texts, speeds) ==
    /\ \/ argKind = "string" /\ text \in texts
       \/ argKind \in NonStringKinds /\ text = <<>>
    /\ wordsPerMinute \in speeds
    /\ NoCall
    /\ NoSearch
    /\ PageLoaded

Init == InitArgument(Strings(WordAlphabet, MaxLen) \cup WordExamples,
                     {DefaultWordsPerMinute})

InitSentences == InitArgument(Strings(SentenceAlphabet, MaxLen) \cup SentenceExamples,
                              {DefaultWordsPerMinute})

InitReadingTime ==
    /\ argKind = "string"
    /\ \/ /\ text \in {Repeat(Chars("word "), n) : n \in 0..MaxWords}
          /\ wordsPerMinute \in (-MaxWpm)..MaxWpm
       \* up to a minute of reading at the default speed
       \/ /\ text \in {Repeat(Chars("word "), DefaultWordsPerMinute - n) : n \in 0..MaxWords}
          /\ wordsPerMinute = DefaultWordsPerMinute
       \* hours and days of reading: a few minutes around whole hours
       \/ /\ text \in {Repeat(Chars("a "), 60 * h + m) :
                           h \in {1, 23, 24, 25, 48}, m \in {0, 59}}
          /\ wordsPerMinute \in 1..2
    /\ NoCall
    /\ NoSearch
    /\ PageLoaded

Return(name, value) ==
    /\ called' = name
    /\ result' = value
    /\ threw' = FALSE
    /\ UNCHANGED <<arguments, page>>

\* a property or method read of null, undefined, or a value without it
Throw(name) ==
    /\ called' = name
    /\ result' = <<>>
    /\ threw' = TRUE
    /\ UNCHANGED <<arguments, page>>

CallGetWords ==
    IF argKind = "string" THEN Return("getWords", getWords(text))
    ELSE Throw("getWords")

\* !text || typeof text !== "string" returns [] before anything is read
CallGetSentences ==
    IF argKind = "string" THEN Return("getSentences", getSentences(text))
    ELSE Return("getSentences", <<>>)

CallGetParagraphs ==
    IF argKind = "string" THEN Return("getParagraphs", getParagraphs(text))
    ELSE Throw("getParagraphs")

CallCalculateWordFrequency ==
    IF argKind = "string"
    THEN Return("calculateWordFrequency", calculateWordFrequency(text))
    ELSE Return("calculateWordFrequency", <<>>)

CallGetAverageWordsPerSentence ==
    IF argKind = "string"
    THEN Return("getAverageWordsPerSentence", getAverageWordsPerSentence(text))
    ELSE Throw("getAverageWordsPerSentence")

CallCalculateReadingTime ==
    IF argKind = "string"
    THEN Return("calculateReadingTime", calculateReadingTime(text, wordsPerMinute))
    ELSE Throw("calculateReadingTime")

\* the guard on wordsPerMinute comes before the text is read
CallGetReadingTimeReadable ==
    IF argKind = "string" \/ wordsPerMinute = 0
    THEN Return("getReadingTimeReadable", getReadingTimeReadable(text, wordsPerMinute))
    ELSE Throw("getReadingTimeReadable")

Next ==
    \/ CallGetWords
    \/ CallGetSentences
    \/ CallGetParagraphs
    \/ CallCalculateWordFrequency
    \/ CallGetAverageWordsPerSentence
    \/ CallCalculateReadingTime
    \/ CallGetReadingTimeReadable

Spec == Init /\ [][Next]_vars

\* the calls that segment the text
NextSentences ==
    \/ CallGetWords
    \/ CallGetSentences
    \/ CallGetParagraphs
    \/ CallCalculateWordFrequency
    \/ CallGetAverageWordsPerSentence

SpecSentences == InitSentences /\ [][NextSentences]_vars

\* the calls that depend on wordsPerMinute, and the word count under them
NextReadingTime ==
    \/ CallGetWords
    \/ CallCalculateReadingTime
    \/ CallGetReadingTimeReadable

SpecReadingTime == InitReadingTime /\ [][NextReadingTime]_vars

----------------------------------------------------------------------------
(* The word search as a state machine: a query, a table and a limit are     *)
(* chosen, then fuzzySearch is called on them.                              *)

MaxTable == 2      \* most entries of an enumerated table

InitSearch ==
    LET words == CharsOf({"cat", "Cats", "concat", "coat", "hat", "hallo", "hxllx"})
        \* a word's count in a short text and in a long one
        frequencies == {1, 300}
        examples ==
            {<<(<<Chars("hat"), 2>>), (<<Chars("cats"), 7>>), (<<Chars("concat"), 9>>),
               (<<Chars("cat"), 1>>), (<<Chars("coat"), 3>>), (<<Chars("c.t"), 4>>)>>,
             <<(<<Chars("cat"), 1>>), (<<Chars("cats"), 201>>), (<<Chars("CAT"), 1>>),
               (<<Chars("cats"), 201>>)>>,
             <<(<<Chars("hallo"), 3>>), (<<Chars("hxllx"), 9>>), (<<Chars("hello"), 1>>),
               (<<Chars("jello"), 3>>), (<<Chars("shell"), 2>>)>>,
             <<(<<Chars("hallo"), 1>>), (<<Chars("hxlloo"), 30>>), (<<Chars("hxllx"), 300>>),
               (<<Chars("HALLO"), 1>>)>>}
    IN  /\ argKind = "string"
        /\ text = <<>>
        /\ wordsPerMinute = DefaultWordsPerMinute
        /\ query \in {<<>>} \cup CharsOf({" ", "cat", " CAT ", "c?t", "c*t", "hello"})
        /\ wordFrequencies \in Strings(words \X frequencies, MaxTable) \cup examples
        /\ limit \in 0..MaxTable \cup {DefaultLimit}
        /\ NoCall
        /\ PageLoaded

CallFuzzySearch == Return("fuzzySearch", fuzzySearch(query, wordFrequencies, limit))

SpecSearch == InitSearch /\ [][CallFuzzySearch]_vars

----------------------------------------------------------------------------
(* The passive-voice measure as a state machine: a text is chosen, then it  *)
(* is split into sentences and measured.                                    *)

MaxPassiveWords == 3    \* most words of a text built from the vocabulary

\* every auxiliary of the list directly before every irregular participle,
\* at the start of a sentence and after a subject
AuxiliaryThenParticiple ==
    UNION {{auxiliary \o <<" ">> \o participle,
            Chars("It ") \o auxiliary \o <<" ">> \o participle \o <<".">>} :
           <<auxiliary, participle>> \in AuxiliaryVerbs \X IrregularPastParticiples}

InitPassive ==
    LET vocabulary ==
            <<Chars("is"), Chars("done"), Chars("done."), Chars("not"), Chars("to"),
              Chars("be"), Chars("will"), Chars("cat."), Chars("walked")>>
        examples ==
            CharsOf({"The cat sat on the mat.",
                     "The ball was thrown. He ran home.",
                     "It was not done. It is. Go! The cake has been eaten. Why?",
                     "Mistakes were made. He is happy to be done. We won.",
                     "The report is in my view very long and not yet finished.",
                     "He is going to town.",
                     \* a participle 4, 5, 6 and 7 words after the auxiliary
                     "It is a b c done.", "It is a b c d done.",
                     "It is a b c d e done.", "It is a b c d e f done.",
                     "It is a b c d e walked. It is a b c d e f g done."})
    IN  /\ \/ /\ argKind = "string"
              /\ text \in {IF Len(words) = 0 THEN <<>>
                           ELSE JoinWords([i \in DOMAIN words |-> vocabulary[words[i]]],
                                          1, Len(words)) :
                           words \in Strings(DOMAIN vocabulary, MaxPassiveWords)}
                              \cup AuxiliaryThenParticiple \cup examples
           \/ argKind \in NonStringKinds /\ text = <<>>
        /\ wordsPerMinute = DefaultWordsPerMinute
        /\ NoCall
        /\ NoSearch
        /\ PageLoaded

\* !text || typeof text !== 'string' returns 0 before anything is read
CallGetPassiveVoicePercentage ==
    IF argKind = "string"
    THEN Return("getPassiveVoicePercentage", getPassiveVoicePercentage(text))
    ELSE Return("getPassiveVoicePercentage", Finite(0, 1))

NextPassive ==
    \/ CallGetSentences
    \/ CallGetPassiveVoicePercentage

SpecPassive == InitPassive /\ [][NextPassive]_vars

----------------------------------------------------------------------------
(* The edit distance as a state machine: two strings are chosen (str1 in    *)
(* text, str2 in query), then the two helpers of the search are called.     *)

MaxEditLen == 3    \* longest enumerated string, in characters

InitDistance ==
    LET strings == Strings({"a", "b"}, MaxEditLen)
                       \cup CharsOf({"kitten", "sitting", "flaw", "lawn", "hello", "hxllx"})
    IN  /\ argKind = "string"
        /\ text \in strings
        /\ wordsPerMinute = DefaultWordsPerMinute
        /\ query \in strings
        /\ wordFrequencies = <<>>
        /\ limit = DefaultLimit
        /\ NoCall
        /\ PageLoaded

CallLevenshteinDistance ==
    Return("levenshteinDistance", levenshteinDistance(text, query))

CallCalculateSimilarity ==
    Return("calculateSimilarity", calculateSimilarity(text, query))

NextDistance ==
    \/ CallLevenshteinDistance
    \/ CallCalculateSimilarity

SpecDistance == InitDistance /\ [][NextDistance]_vars

----------------------------------------------------------------------------
(* The character counts as a state machine: a text is chosen, then the      *)
(* counting functions are called on it.                                     *)

MaxCharLen == 3    \* longest enumerated text, in characters

InitCharacters ==
    /\ argKind = "string"
    /\ text \in Strings({"a", "E", "y", "Y", "b", "1", " ", "-", "_", "@"}, MaxCharLen)
                 \cup CharsOf({"Hello, World! 123", "snake_case = \"a_b\";",
                               "Yes, you may say why: my RHYTHM is easy.",
                               "[x] {y} (z)\t50% & more\n"})
                 \cup {<<"K", Kelvin, Ellipsis>>}
    /\ wordsPerMinute = DefaultWordsPerMinute
    /\ NoCall
    /\ NoSearch
    /\ PageLoaded

\* a call of one of the counting functions
CallCharacterCount ==
    \E count \in {<<"getCharCount", getCharCount(text)>>,
                  <<"getLettersCharCount", getLettersCharCount(text)>>,
                  <<"getNumbersCharCount", getNumbersCharCount(text)>>,
                  <<"getWhitespaceCharCount", getWhitespaceCharCount(text)>>,
                  <<"getPunctuationCharCount", getPunctuationCharCount(text)>>,
                  <<"getSpecialCharCount", getSpecialCharCount(text)>>,
                  <<"getVowelCharCount", getVowelCharCount(text)>>} :
        Return(count[1], Finite(count[2], 1))

SpecCharacters == InitCharacters /\ [][CallCharacterCount]_vars

----------------------------------------------------------------------------
(* The page as a state machine: the user types, pastes and clears; time     *)
(* passes; the browser runs the timeouts that are due.                      *)

MaxInputEvents == 3    \* most input events of a run
MaxPageLen == 6        \* longest value of the text input, in characters

\* handleInput, run on an input event when the value of the input is v
handleInput(v) ==
    /\ inputEvents < MaxInputEvents
    /\ inputValue' = v
    /\ inputEvents' = inputEvents + 1
    /\ display' = showCheapCalculations(display, v)
    /\ timers' = debounce(debounce(timers, timer["mediumLoadAnalysis"],
                                   "mediumLoadAnalysis", v, MediumTimeout, timerIds + 1),
                          timer["heavyLoadAnalysis"],
                          "heavyLoadAnalysis", v, HeavyTimeout, timerIds + 2)
    /\ timer' = [timer EXCEPT !["mediumLoadAnalysis"] = timerIds + 1,
                              !["heavyLoadAnalysis"] = timerIds + 2]
    /\ timerIds' = timerIds + 2
    /\ UNCHANGED <<arguments, called, result, threw, readingSpeed,
                   textReadability>>

\* the user edits the text: the browser sets the value and sends input
TypeText ==
    \E v \in {<<>>, Chars("b a"), Chars("a. a"), Chars("a\n\nb")} : handleInput(v)

\* handleClear, run on a click on the clear button, which a disabled button
\* does not take: handleInput("") has disabled the button when the handler
\* disables it
HandleClear ==
    /\ display["clear-btn"] # [disabled |-> TRUE]
    /\ handleInput(<<>>)

\* handlePaste from the moment readText() has resolved
HandlePaste ==
    \E clip \in {Chars(" a"), Chars("!")} :
        /\ Len(inputValue) + Len(clip) <= MaxPageLen
        /\ handleInput(inputValue \o clip)

\* time passes until the next timeout is due
TimePasses ==
    /\ timers # {}
    /\ \A tm \in timers : tm.remaining > 0
    /\ LET next == CHOOSE tm \in timers : \A other \in timers : tm.remaining <= other.remaining
       IN  timers' = {[tm EXCEPT !.remaining = @ - next.remaining] : tm \in timers}
    /\ UNCHANGED <<arguments, called, result, threw, inputValue, inputEvents,
                   timer, timerIds, display, readingSpeed,
                   textReadability>>

\* the browser runs the callback of a timeout that is due
TimeoutFires ==
    \E tm \in timers :
        /\ tm.remaining = 0
        /\ timers' = timers \ {tm}
        /\ display' = IF tm.func = "mediumLoadAnalysis"
                      THEN mediumLoadAnalysis(display, tm.args)
                      ELSE heavyLoadAnalysis(display, tm.args)
        /\ UNCHANGED <<arguments, called, result, threw, inputValue, inputEvents,
                       timer, timerIds, readingSpeed,
                       textReadability>>

InitPage ==
    /\ argKind = "string"
    /\ text = <<>>
    /\ wordsPerMinute = DefaultWordsPerMinute
    /\ NoCall
    /\ NoSearch
    /\ PageLoaded

NextPage ==
    \/ TypeText
    \/ HandleClear
    \/ HandlePaste
    \/ TimePasses
    \/ TimeoutFires

\* the event loop lets time pass and runs every timeout that is due.
\* Fairness of running is stated on the set of timeouts alone: among the
\* steps of NextPage the steps of TimeoutFires, and no others, take one due
\* timeout out of the set.
SpecPage ==
    /\ InitPage
    /\ [][NextPage]_vars
    /\ WF_vars(TimePasses)
    /\ WF_timers(\E tm \in timers : tm.remaining = 0 /\ timers' = timers \ {tm})

----------------------------------------------------------------------------
(* The page of src/scripts/app.js (its first class App) as a state machine: *)
(* this App counts by itself, debounces one analysis, and its handleClear   *)
(* and handlePaste send no input event.                                     *)

\* text.trim().split(/\s+/g).filter((w) => w.length > 0).length: the runs of
\* characters that are not whitespace
calculateWordCount(t) ==
    Cardinality({i \in DOMAIN t : /\ t[i] \notin WhiteSpace
                                  /\ (i = 1 \/ t[i - 1] \in WhiteSpace)})

\* the number calculateSentenceCount shows
calculateSentenceCount(t) ==
    LET abbreviations ==
            CharsOf({"mr", "mrs", "ms", "dr", "prof", "sr", "jr", "vs", "etc", "inc",
                     "ltd", "corp", "co", "st", "ave", "blvd", "rd", "apt", "no", "vol",
                     "pp", "ch", "sec", "fig", "ref", "i.e", "e.g", "cf", "al", "approx"})
        \* s.split(/[.!?]/g), current being the piece begun
        RECURSIVE Split(_, _)
        Split(s, current) ==
            IF s = <<>> THEN <<current>>
            ELSE IF Head(s) \in Terminators THEN <<current>> \o Split(Tail(s), <<>>)
            ELSE Split(Tail(s), Append(current, Head(s)))
        sentences == SelectSeq(Split(trim(t), <<>>), LAMBDA piece : Len(piece) > 0)
        \* the last element of sentence.split(/\s+/)
        RECURSIVE LastWord(_)
        LastWord(sentence) ==
            IF sentence = <<>> \/ sentence[Len(sentence)] \in WhiteSpace THEN <<>>
            ELSE Append(LastWord(SubSeq(sentence, 1, Len(sentence) - 1)),
                        sentence[Len(sentence)])
        \* the for loop from index i on; valid is validSentences.length
        RECURSIVE Loop(_, _, _)
        Loop(list, i, valid) ==
            IF i > Len(list) THEN valid
            ELSE IF toLowerCase(LastWord(list[i])) \in abbreviations /\ i < Len(list)
            THEN Loop([list EXCEPT ![i + 1] = list[i] \o <<".", " ">> \o list[i + 1]],
                      i + 1, valid)
            ELSE Loop(list, i + 1, valid + 1)
    IN  Loop(sentences, 1, 0)

\* the function App.mediumLoadAnalysis debounces: calculateWordCount,
\* calculateSentenceCount and calculateParagraphCount, whose expression is
\* that of getParagraphs
App_mediumLoadAnalysis(shown, t) ==
    [shown EXCEPT
        !["word-count"] = TextContent(toLocaleString(Finite(calculateWordCount(t), 1))),
        !["sentence-count"] =
            TextContent(toLocaleString(Finite(calculateSentenceCount(t), 1))),
        !["paragraph-count"] =
            TextContent(toLocaleString(Finite(getParagraphCount(t), 1)))]

\* App.handleInput, run on an input event when the value of the input is v:
\* the clear button, calculateCharCount, calculateCharCountNoSpaces,
\* calculateReadingTime and the debounced mediumLoadAnalysis
App_handleInput(v) ==
    LET \* text.trim().split(/\s+/).length: the split of "" is [""]
        wordCount == IF trim(v) = <<>> THEN 1 ELSE calculateWordCount(v)
        minutes == wordCount \div DefaultWordsPerMinute
        \* Math.round((totalMinutes - minutes) * 60)
        seconds == (120 * (wordCount % DefaultWordsPerMinute) + DefaultWordsPerMinute)
                       \div (2 * DefaultWordsPerMinute)
    IN  /\ inputEvents < MaxInputEvents
        /\ inputValue' = v
        /\ inputEvents' = inputEvents + 1
        /\ display' =
               [display EXCEPT
                   !["clear-btn"] = [disabled |-> (v = <<>>)],
                   !["char-count"] = TextContent(toLocaleString(Finite(Len(v), 1))),
                   !["char-no-space-count"] =
                       TextContent(toLocaleString(Finite(getCharCountNoSpaces(trim(v)), 1))),
                   !["reading-time"] =
                       TextContent(NumberToString(minutes) \o Chars("m ")
                                       \o NumberToString(seconds) \o Chars("s"))]
        /\ timers' = debounce(timers, timer["mediumLoadAnalysis"],
                              "mediumLoadAnalysis", v, MediumTimeout, timerIds + 1)
        /\ timer' = [timer EXCEPT !["mediumLoadAnalysis"] = timerIds + 1]
        /\ timerIds' = timerIds + 1
        /\ UNCHANGED <<arguments, called, result, threw, readingSpeed,
                       textReadability>>

\* the user edits the text: the browser sets the value and sends input
App_TypeText ==
    \E v \in {<<>>, Chars("b a"), Chars("Mr. a. b"), Chars("a\n\nb")} : App_handleInput(v)

\* App.handleClear, run on a click on the clear button, which a disabled
\* button does not take: the input is emptied without an input event, then
\* resetStatistics and clearWordFrequencyChart write the elements
App_handleClear ==
    /\ display["clear-btn"] # [disabled |-> TRUE]
    /\ inputValue' = <<>>
    /\ display' =
           [display EXCEPT
               !["clear-btn"] = [disabled |-> TRUE],
               !["char-count"] = TextContent(<<"0">>),
               !["char-no-space-count"] = TextContent(<<"0">>),
               !["word-count"] = TextContent(<<"0">>),
               !["sentence-count"] = TextContent(<<"0">>),
               !["paragraph-count"] = TextContent(<<"0">>),
               !["reading-time"] = TextContent(Chars("0s")),
               !["unique-word-count"] = TextContent(<<"0">>),
               !["frequency-toggle"] = [display |-> "none"],
               !["word-frequency-chart"] = [placeholder |-> TRUE]]
    /\ UNCHANGED <<arguments, called, result, threw, inputEvents, timers, timer,
                   timerIds, readingSpeed,
                   textReadability>>

\* App.handlePaste from the moment readText() has resolved: the value grows,
\* no event is sent
App_handlePaste ==
    \E clip \in {Chars(" a"), Chars("!")} :
        /\ Len(inputValue) + Len(clip) <= MaxPageLen
        /\ inputValue' = inputValue \o clip
        /\ UNCHANGED <<arguments, called, result, threw, inputEvents, timers, timer,
                       timerIds, display, readingSpeed,
                       textReadability>>

\* the browser runs the callback of a timeout that is due
App_TimeoutFires ==
    \E tm \in timers :
        /\ tm.remaining = 0
        /\ timers' = timers \ {tm}
        /\ display' = App_mediumLoadAnalysis(display, tm.args)
        /\ UNCHANGED <<arguments, called, result, threw, inputValue, inputEvents,
                       timer, timerIds, readingSpeed,
                       textReadability>>

\* the page after new App() and init()
InitApp ==
    /\ argKind = "string"
    /\ text = <<>>
    /\ wordsPerMinute = DefaultWordsPerMinute
    /\ NoCall
    /\ NoSearch
    /\ inputValue = <<>>
    /\ inputEvents = 0
    /\ timers = {}
    /\ timer = [f \in DebouncedFunctions |-> 0]
    /\ timerIds = 0
    /\ display = [e \in {"word-count", "char-count", "char-no-space-count",
                          "sentence-count", "paragraph-count", "reading-time",
                          "clear-btn", "word-frequency-chart", "frequency-toggle",
                          "unique-word-count"} |-> Markup]
    /\ readingSpeed = DefaultWordsPerMinute
    /\ textReadability = <<>>

NextApp ==
    \/ App_TypeText
    \/ App_handleClear
    \/ App_handlePaste
    \/ TimePasses
    \/ App_TimeoutFires

SpecApp == InitApp /\ [][NextApp]_vars

----------------------------------------------------------------------------
(* The page of class ReadingTime as a state machine: the user edits the     *)
(* text, pastes, clears and moves the two speed inputs.                     *)

\* ReadingTime.handleInput with a button disabled for a blank text
ReadingTime_handleInput_BlankDisables(shown, t) ==
    [shown EXCEPT
        !["clear-btn"] = [disabled |-> (trim(t) = <<>>)],
        !["reading-time-display"] =
            TextContent(getReadingTimeReadable(t, shown["speed-input"].value)),
        !["word-count-display"] = TextContent(toLocaleString(Finite(getWordCount(t), 1)))]

\* ReadingTime.handleInput for the value t of the input: the clear button,
\* then showReadingTime(text, speedInput.value) and showWordCount(text). The
\* value of speed-input is the text of an integer, which
\* getReadingTimeReadable takes as that integer.
ReadingTime_handleInput(shown, t) ==
    [shown EXCEPT
        !["clear-btn"] = [disabled |-> (t = <<>>)],
        !["reading-time-display"] =
            TextContent(getReadingTimeReadable(t, shown["speed-input"].value)),
        !["word-count-display"] = TextContent(toLocaleString(Finite(getWordCount(t), 1)))]

\* ReadingTime.updateDisplay for the value t of the input:
\* showReadingTime(textInput.value, this.readingSpeed) and showWordCount
ReadingTime_updateDisplay(shown, t, speed) ==
    [shown EXCEPT
        !["reading-time-display"] = TextContent(getReadingTimeReadable(t, speed)),
        !["word-count-display"] = TextContent(toLocaleString(Finite(getWordCount(t), 1)))]

\* ReadingTime.handleClear, run on a click on the clear button, which a
\* disabled button does not take: the input is emptied, the input event it
\* dispatches is handled, then the button is disabled
ReadingTime_handleClear ==
    /\ display["clear-btn"] # [disabled |-> TRUE]
    /\ inputEvents < MaxInputEvents
    /\ inputValue' = <<>>
    /\ inputEvents' = inputEvents + 1
    /\ display' = [ReadingTime_handleInput(display, <<>>) EXCEPT
                       !["clear-btn"] = [disabled |-> TRUE]]
    /\ UNCHANGED <<arguments, called, result, threw, timers, timer, timerIds,
                   readingSpeed,
                   textReadability>>

\* ReadingTime.handlePaste from the moment readText() has resolved, the
\* clipboard holding clip: the value grows and the input event it
\* dispatches is handled
ReadingTime_handlePaste ==
    \E clip \in {<<>>, Chars(" a"), Chars("!")} :
        /\ Len(inputValue) + Len(clip) <= MaxPageLen
        /\ inputEvents < MaxInputEvents
        /\ inputValue' = inputValue \o clip
        /\ inputEvents' = inputEvents + 1
        /\ display' = ReadingTime_handleInput(display, inputValue \o clip)
        /\ UNCHANGED <<arguments, called, result, threw, timers, timer, timerIds,
                       readingSpeed,
                       textReadability>>

\* the listener of input on speed-input, the input holding the integer n
SpeedInput ==
    \E n \in -MaxWpm..MaxWpm \cup {DefaultWordsPerMinute} :
        LET value == IF n < 0 THEN 0 ELSE n
        IN  /\ readingSpeed' = value
            /\ display' =
                   ReadingTime_updateDisplay(
                       [display EXCEPT
                           !["speed-input"] = [value |-> n],
                           !["speed-display"] =
                               TextContent(toLocaleString(Finite(value, 1)))],
                       inputValue, value)
            /\ UNCHANGED <<arguments, called, result, threw, inputValue, inputEvents,
                           timers, timer, timerIds, textReadability>>

\* the listener of input on speed-input-mobile, the input holding the
\* integer n: this.readingSpeed is assigned before value is raised to 0
SpeedInputMobile ==
    \E n \in -MaxWpm..MaxWpm \cup {DefaultWordsPerMinute} :
        LET value == IF n < 0 THEN 0 ELSE n
        IN  /\ readingSpeed' = n
            /\ display' =
                   ReadingTime_updateDisplay(
                       [display EXCEPT
                           !["speed-input-mobile"] = [value |-> n],
                           !["speed-input"] = [value |-> value],
                           !["speed-display"] =
                               TextContent(toLocaleString(Finite(value, 1)))],
                       inputValue, n)
            /\ UNCHANGED <<arguments, called, result, threw, inputValue, inputEvents,
                           timers, timer, timerIds, textReadability>>

\* the page after new ReadingTime() and init(): the two speed inputs hold
\* the value of the page's markup
InitReadingTimePage ==
    /\ argKind = "string"
    /\ text = <<>>
    /\ wordsPerMinute = DefaultWordsPerMinute
    /\ NoCall
    /\ NoSearch
    /\ inputValue = <<>>
    /\ inputEvents = 0
    /\ timers = {}
    /\ timer = [f \in DebouncedFunctions |-> 0]
    /\ timerIds = 0
    /\ display = [e \in {"speed-display", "reading-time-display", "word-count-display",
                          "speed-input", "speed-input-mobile", "clear-btn"} |->
                     IF e \in {"speed-input", "speed-input-mobile"}
                     THEN [value |-> DefaultWordsPerMinute]
                     ELSE Markup]
    /\ readingSpeed = DefaultWordsPerMinute
    /\ textReadability = <<>>

NextReadingTimePage ==
    \/ \E v \in {<<>>, <<" ">>, Chars("b a"), Chars("a. a")} :
           \* the user edits the text: the browser sets the value and sends input
           /\ inputEvents < MaxInputEvents
           /\ inputValue' = v
           /\ inputEvents' = inputEvents + 1
           /\ display' = ReadingTime_handleInput(display, v)
           /\ UNCHANGED <<arguments, called, result, threw, timers, timer, timerIds,
                          readingSpeed,
                          textReadability>>
    \/ ReadingTime_handleClear
    \/ ReadingTime_handlePaste
    \/ SpeedInput
    \/ SpeedInputMobile

SpecReadingTimePage == InitReadingTimePage /\ [][NextReadingTimePage]_vars

----------------------------------------------------------------------------
(* The page of class ReadabilityCalculator as a state machine. The scores   *)
(* come from window.textReadability, a library outside the repository: its  *)
(* answer for a text is any of a few pairs of whole numbers, and the same    *)
(* at every call for the same text.                                         *)

\* getPassiveVoiceDescription from its second line on, percentage being
\* getPassiveVoicePercentage(text)
PassiveVoiceDescriptionOf(percentage) ==
    IF percentage.n = 0 THEN "Not Passive"
    ELSE IF percentage.n <= 5 * percentage.d THEN "Minimal Passivity"
    ELSE IF percentage.n <= 10 * percentage.d THEN "Low Passivity"
    ELSE IF percentage.n <= 15 * percentage.d THEN "Moderate Passivity"
    ELSE IF percentage.n <= 25 * percentage.d THEN "High Passivity"
    ELSE IF percentage.n <= 35 * percentage.d THEN "Very High Passivity"
    ELSE "Excessive Passivity"

\* showReadabilityScore: what the element readability-score holds after the
\* call, score being fleschReadingEase(text); of the classes of the element
\* the five colour classes are kept
showReadabilityScore(element, t, score) ==
    LET band == IF score < 10 THEN <<"Extremely difficult", "text-red-500">>
                ELSE IF score < 30 THEN <<"Very Difficult", "text-red-500">>
                ELSE IF score < 50 THEN <<"Difficult", "text-orange-500">>
                ELSE IF score < 60 THEN <<"Somewhat Challenging", "text-yellow-500">>
                ELSE IF score < 70 THEN <<"Plain English", "text-green-500">>
                ELSE IF score < 80 THEN <<"Easy", "text-green-500">>
                ELSE <<"Very Easy", "text-primary">>
    IN  IF Len(trim(t)) = 0
        THEN [textContent |-> Chars("N/A"),
              classList |-> element.classList
                                \ {"text-red-500", "text-orange-500", "text-yellow-500",
                                   "text-green-500", "text-primary"}]
        ELSE [textContent |-> Chars(band[1]),
              classList |-> element.classList \cup {band[2]}]

\* ReadabilityCalculator.handleInput, run on an input event when the value
\* of the input is v: the clear button, then the seven show functions. The
\* explanations are long fixed texts, one for each band of the score or of
\* the percentage; the band stands for them. percentage is
\* what getPassiveVoicePercentage(text) returns, to showPassiveVoice, to
\* showPassiveVoicePercentage and to showPassiveVoiceExplanation alike.
ReadabilityCalculator_handleInput(v) ==
    \E percentage \in {getPassiveVoicePercentage(v)},
       answer \in {[ease |-> 9, grade |-> 14], [ease |-> 10, grade |-> 13],
                   [ease |-> 30, grade |-> 12], [ease |-> 50, grade |-> 10],
                   [ease |-> 60, grade |-> 8], [ease |-> 70, grade |-> 2],
                   [ease |-> 80, grade |-> 1]} :
        LET blank == Len(trim(v)) = 0
            description == PassiveVoiceDescriptionOf(percentage)
            scoreElement == showReadabilityScore(display["readability-score"], v,
                                                 answer.ease)
        IN  /\ inputEvents < MaxInputEvents
            /\ v \in DOMAIN textReadability => answer = textReadability[v]
            /\ textReadability' = IF blank THEN textReadability
                                  ELSE (v :> answer) @@ textReadability
            /\ inputValue' = v
            /\ inputEvents' = inputEvents + 1
            /\ display' =
                   [display EXCEPT
                       !["clear-btn"] = [disabled |-> (v = <<>>)],
                       !["readability-score"] = scoreElement,
                       !["grade-level"] =
                           TextContent(IF blank THEN Chars("N/A")
                                       ELSE IF answer.grade <= 1
                                       THEN Chars("1st Grade or Lower")
                                       ELSE IF answer.grade > 12
                                       THEN Chars("College or Higher")
                                       ELSE NumberToString(answer.grade)
                                                \o Chars("th Grade")),
                       !["passive-voice"] =
                           TextContent(IF blank THEN Chars("N/A")
                                       ELSE Chars(description)),
                       \* score.toFixed(0)
                       !["flesch-score"] =
                           TextContent(IF blank THEN <<"0">>
                                       ELSE NumberToString(answer.ease)),
                       !["flesch-explanation"] =
                           [explanationOf |-> IF blank THEN "no text"
                                              ELSE scoreElement.textContent],
                       \* percentage.toFixed(0) rounds to the nearest whole number
                       !["passive-voice-percentage"] =
                           TextContent(IF blank THEN Chars("0%")
                                       ELSE NumberToString((2 * percentage.n + percentage.d)
                                                               \div (2 * percentage.d))
                                                \o <<"%">>),
                       !["passive-voice-explanation"] =
                           [explanationOf |-> IF blank THEN "no text"
                                              ELSE description]]
            /\ UNCHANGED <<arguments, called, result, threw, timers, timer, timerIds,
                           readingSpeed>>

\* ReadabilityCalculator.handleClear, run on a click on the clear button,
\* which a disabled button does not take: handleInput("") has disabled the
\* button when the handler disables it
ReadabilityCalculator_handleClear ==
    /\ display["clear-btn"] # [disabled |-> TRUE]
    /\ ReadabilityCalculator_handleInput(<<>>)

\* ReadabilityCalculator.handlePaste from the moment readText() has resolved
ReadabilityCalculator_handlePaste ==
    \E clip \in {<<>>, Chars(" is done.")} :
        ReadabilityCalculator_handleInput(inputValue \o clip)

\* the page after new ReadabilityCalculator() and init(); the markup gives
\* readability-score none of the five colour classes
InitReadability ==
    /\ argKind = "string"
    /\ text = <<>>
    /\ wordsPerMinute = DefaultWordsPerMinute
    /\ NoCall
    /\ NoSearch
    /\ inputValue = <<>>
    /\ inputEvents = 0
    /\ timers = {}
    /\ timer = [f \in DebouncedFunctions |-> 0]
    /\ timerIds = 0
    /\ display = [e \in {"readability-score", "grade-level", "passive-voice",
                          "flesch-score", "flesch-explanation",
                          "passive-voice-percentage", "passive-voice-explanation",
                          "clear-btn"} |->
                     IF e = "readability-score"
                     THEN [markup |-> TRUE, classList |-> {}]
                     ELSE Markup]
    /\ readingSpeed = DefaultWordsPerMinute
    /\ textReadability = <<>>

NextReadability ==
    \/ \E v \in {<<>>, <<" ">>, Chars("It is."), Chars("Go. It was made.")} :
           \* the user edits the text: the browser sets the value and sends input
           ReadabilityCalculator_handleInput(v)
    \/ ReadabilityCalculator_handleClear
    \/ ReadabilityCalculator_handlePaste

SpecReadability == InitReadability /\ [][NextReadability]_vars

----------------------------------------------------------------------------
(* Properties *)

RECURSIVE SumCounts(_)
SumCounts(entries) ==
    IF entries = <<>> THEN 0
    ELSE entries[1][2] + SumCounts(Tail(entries))

\* the index of the first token equal to word, 0 when there is none
FirstOccurrence(words, word) ==
    IF \E i \in DOMAIN words : words[i] = word
    THEN CHOOSE i \in DOMAIN words :
             words[i] = word /\ \A j \in 1..(i - 1) : words[j] # word
    ELSE 0

Blank(t) == \A i \in DOMAIN t : t[i] \in WhiteSpace

FrequencyOf(t) == called = "calculateWordFrequency" /\ argKind = "string" /\ text = t

SentencesOf(t) == called = "getSentences" /\ argKind = "string" /\ text = t

\* C1: the counts of calculateWordFrequency(text) sum to getWordCount(text),
\* every count is at least 1, and every word of the table is the lowercase
\* form of a token of getWords(text).
C1_FrequencyConservation ==
    (called = "calculateWordFrequency" /\ argKind = "string") =>
        /\ SumCounts(result) = getWordCount(text)
        /\ \A i \in DOMAIN result : result[i][2] >= 1
        /\ \A i \in DOMAIN result :
               \E j \in DOMAIN getWords(text) :
                   result[i][1] = toLowerCase(getWords(text)[j])

LettersOfLastWord(s) ==
    LET body == StripTrailingTerminators(s)
        start == IF \E i \in DOMAIN body : body[i] \in WhiteSpace
                 THEN 1 + CHOOSE i \in DOMAIN body :
                              /\ body[i] \in WhiteSpace
                              /\ \A j \in (i + 1)..Len(body) : body[j] \notin WhiteSpace
                 ELSE 1
    IN  SelectSeq(toLowerCase(SubSeq(body, start, Len(body))),
                  LAMBDA c : c \in LowerCase)

\* s closes with a period (not with an ellipsis) right after an abbreviation
EndsWithAbbreviationPeriod(s) ==
    /\ endsWith(s, <<".">>)
    /\ ~endsWith(s, <<".", ".", ".">>)
    /\ LettersOfLastWord(s) \in Abbreviations

\* C3: in getSentences a period after a word whose lowercased letters are in
\* the abbreviation set does not end the sentence: no sentence but the last
\* closes with such a period, and "Dr. Smith went home." is one sentence.
C3_AbbreviationDoesNotSplit ==
    (called = "getSentences" /\ argKind = "string") =>
        /\ \A i \in 1..(Len(result) - 1) : ~EndsWithAbbreviationPeriod(result[i])
        /\ text = Chars("Dr. Smith went home.") =>
               result = <<Chars("Dr. Smith went home.")>>
        /\ text = Chars("mm. m!") => result = <<Chars("mm. m!")>>

C3_Witness ==
    /\ SentencesOf(Chars("Dr. Smith went home."))
    /\ Len(result) = 1

\* position i of s closes a punctuation run that ends in "...", the
\* ellipsis character, "!" or "?"
ClosesStrongRun(s, i) ==
    \/ s[i] = Ellipsis
    \/ /\ \/ s[i] \in {"!", "?"}
          \/ i >= 3 /\ SubSeq(s, i - 2, i) = <<".", ".", ".">>
       /\ i = Len(s) \/ s[i + 1] \notin Terminators

\* C4: in getSentences a punctuation run that ends in "...", the ellipsis
\* character, "!" or "?" ends the current sentence and stays at its end: no
\* sentence holds such a run before its end, every sentence but the last
\* closes with punctuation, and "Wait... What?! Really." gives "Wait...",
\* "What?!", "Really.".
C4_StrongRunEndsSentence ==
    (called = "getSentences" /\ argKind = "string") =>
        /\ \A k \in DOMAIN result :
               \A i \in 1..(Len(result[k]) - 1) : ~ClosesStrongRun(result[k], i)
        /\ \A k \in 1..(Len(result) - 1) :
               result[k][Len(result[k])] \in Terminators \cup {Ellipsis}
        /\ text = Chars("Wait... What?! Really.") =>
               result = <<Chars("Wait..."), Chars("What?!"), Chars("Really.")>>

C4_Witness ==
    /\ SentencesOf(Chars("Wait... What?! Really."))
    /\ Len(result) = 3
    /\ result[2] = Chars("What?!")

\* C5: every element of getSentences(text) is non-empty, has no leading or
\* trailing whitespace and does not consist only of . ! ? ellipsis and
\* whitespace.
C5_SentencesWellFormed ==
    (called = "getSentences") =>
        \A k \in DOMAIN result :
            LET s == result[k]
            IN  /\ s # <<>>
                /\ s[1] \notin WhiteSpace
                /\ s[Len(s)] \notin WhiteSpace
                /\ \E i \in DOMAIN s :
                       s[i] \notin Terminators \cup {Ellipsis} \cup WhiteSpace

\* a text that opens with punctuation, of which a sentence was still kept
C5_Witness ==
    /\ called = "getSentences" /\ argKind = "string"
    /\ text # <<>> /\ text[1] \in Terminators \cup {Ellipsis}
    /\ text[Len(text)] \in WhiteSpace
    /\ Len(result) = 1

\* C6: getSentences and calculateWordFrequency return an empty list, without
\* an exception, for null, undefined, a non-string value and the empty
\* string; getWords, getSentences and getParagraphs return an empty list for
\* every empty or whitespace-only string.
C6_DegenerateInputEmpty ==
    /\ (/\ called \in {"getSentences", "calculateWordFrequency"}
        /\ argKind # "string" \/ text = <<>>)
           => ~threw /\ result = <<>>
    /\ (/\ called \in {"getWords", "getSentences", "getParagraphs"}
        /\ argKind = "string" /\ Blank(text))
           => ~threw /\ result = <<>>

C6_Witness ==
    /\ called = "getParagraphs" /\ argKind = "string"
    /\ text = <<" ", "\n", " ">>
    /\ result = <<>> /\ ~threw

\* C7: getAverageWordsPerSentence(text) is a finite number for every string,
\* and 0 whenever getSentenceCount(text) is 0.
C7_AverageFinite ==
    (called = "getAverageWordsPerSentence" /\ argKind = "string") =>
        /\ result.k = "finite"
        /\ getSentenceCount(text) = 0 => result.n = 0

\* C8: for a wordsPerMinute that is zero or negative getReadingTimeReadable
\* returns "0m 0s".
C8_NonPositiveSpeedSentinel ==
    (called = "getReadingTimeReadable" /\ argKind = "string" /\ wordsPerMinute <= 0) =>
        result = Chars("0m 0s")

\* C9: calculateReadingTime(text, 0) is a finite number, never Infinity or NaN.
C9_ReadingTimeZeroSpeedFinite ==
    (called = "calculateReadingTime" /\ argKind = "string" /\ wordsPerMinute = 0) =>
        result.k = "finite"

\* the decimal form of k, 0 <= k < 100
TwoDigits(k) ==
    IF k < 10 THEN <<DigitSeq[k + 1]>>
    ELSE <<DigitSeq[(k \div 10) + 1], DigitSeq[(k % 10) + 1]>>

\* C10: for wordsPerMinute w > 0 and 0 <= k < 60, a text of exactly k*w words
\* gives "<k>m 0s"; 250 words at 250 words per minute give "1m 0s".
C10_WholeMinutes ==
    (called = "getReadingTimeReadable" /\ argKind = "string" /\ wordsPerMinute > 0) =>
        /\ \A k \in 0..59 :
               getWordCount(text) = k * wordsPerMinute =>
                   result = TwoDigits(k) \o Chars("m 0s")
        /\ (text = Repeat(Chars("word "), 250) /\ wordsPerMinute = 250) =>
               result = Chars("1m 0s")

C10_Witness ==
    /\ called = "getReadingTimeReadable"
    /\ wordsPerMinute = 250
    /\ getWordCount(text) = 250
    /\ result = Chars("1m 0s")

\* the query as fuzzySearch compares it
SearchTermOf(q) == trim(toLowerCase(q))

\* the tier of a word under a search term: 5 exact, 4 prefix, 3 substring,
\* 2 wildcard only, 1 otherwise
TierOf(word, searchTerm) ==
    IF toLowerCase(word) = searchTerm THEN 5
    ELSE IF startsWith(toLowerCase(word), searchTerm) THEN 4
    ELSE IF includes(toLowerCase(word), searchTerm) THEN 3
    ELSE IF test(createPattern(searchTerm), word) THEN 2
    ELSE 1

\* C11: the entries fuzzySearch returns for a non-blank query are ordered by
\* tier, whatever their frequencies: an entry of a higher tier (exact, then
\* prefix, substring, wildcard only, fuzzy) never comes after one of a lower.
C11_TierOrder ==
    (called = "fuzzySearch" /\ SearchTermOf(query) # <<>>) =>
        \A i, j \in DOMAIN result :
            i < j => TierOf(result[i][1], SearchTermOf(query))
                         >= TierOf(result[j][1], SearchTermOf(query))

\* whether some word of the sequence is an auxiliary or begins a two- or
\* three-word one
ContainsAuxiliary(words) ==
    \E i \in DOMAIN words, count \in 1..3 :
        /\ i + count - 1 <= Len(words)
        /\ JoinWords(words, i, count) \in AuxiliaryVerbs

\* C12: getPassiveVoicePercentage returns a number from 0 to 100, and 0 when
\* the text has no sentence or no sentence of it has an auxiliary verb.
C12_PassivePercentageRange ==
    called = "getPassiveVoicePercentage" =>
        /\ result.k = "finite"
        /\ 0 <= result.n
        /\ result.n <= 100 * result.d
        /\ (\A i \in DOMAIN getSentences(text) :
                ~ContainsAuxiliary(SentenceWords(getSentences(text)[i])))
               => result = Finite(0, 1)

\* a text of which some sentences, not all, are passive has been measured
C12_Witness ==
    /\ called = "getPassiveVoicePercentage"
    /\ 0 < result.n
    /\ result.n < 100 * result.d

\* the timeouts a debounced function has pending
PendingOf(func) == {tm \in timers : tm.func = func}

\* whether the elements a debounced function writes show the analysis of t
ShowsAnalysisOf(func, t) ==
    IF func = "mediumLoadAnalysis"
    THEN display = mediumLoadAnalysis(display, t)
    ELSE display = heavyLoadAnalysis(display, t)

\* at most one timeout pending per debounced function, every pending one
\* carrying the latest input; with none pending after an input, the
\* function's elements show the analysis of the latest input
DebounceInvariant ==
    \A func \in DebouncedFunctions :
        /\ Cardinality(PendingOf(func)) <= 1
        /\ \A tm \in PendingOf(func) : tm.args = inputValue
        /\ (PendingOf(func) = {} /\ inputEvents > 0) => ShowsAnalysisOf(func, inputValue)

\* an input event leaves none of the timeouts that were pending before it
InputCancelsPending ==
    inputEvents' > inputEvents =>
        {tm.id : tm \in timers} \cap {tm.id : tm \in timers'} = {}

\* C13: each debounced analysis of the page has at most one timeout pending;
\* a new input cancels the pending one, and the timeout that fires runs with
\* the text of the latest input; once input stops, the counts and the chart
\* come to show the analysis of the final text and stay so.
C13_DebounceSettles ==
    /\ []DebounceInvariant
    /\ [][InputCancelsPending]_vars
    /\ <>[](timers = {})

\* after an input that replaced pending timeouts, every timeout has run and
\* the page shows the analyses of the text in the input
C13_Witness ==
    /\ inputEvents >= 2
    /\ timerIds > 2
    /\ inputValue # <<>>
    /\ timers = {}
    /\ \A func \in DebouncedFunctions : ShowsAnalysisOf(func, inputValue)
    /\ display["word-count"] = TextContent(<<"2">>)

\* s closes with a single period right after a word of digits only
EndsWithNumberPeriod(s) ==
    LET words == SplitWhitespace(StripTrailingTerminators(s), 1, 1)
        lastWord == words[Len(words)]
    IN  /\ endsWith(s, <<".">>)
        /\ ~endsWith(s, <<".", ".">>)
        /\ lastWord # <<>>
        /\ \A i \in DOMAIN lastWord : lastWord[i] \in Digits

\* C14: in getSentences a period after a purely numeric word ("1.") does not
\* end the sentence: no sentence but the last closes with such a period.
C14_NumberedItemDoesNotSplit ==
    (called = "getSentences" /\ argKind = "string") =>
        \A i \in 1..(Len(result) - 1) : ~EndsWithNumberPeriod(result[i])

\* the whole minutes of reading the text at the speed
WholeMinutes == getWordCount(text) \div wordsPerMinute

\* C15: at a positive speed and under one hour of reading,
\* getReadingTimeReadable returns "Xm Ys" with Y from 0 to 59: seconds that
\* round to 60 are carried into the minutes.
C15_SecondsBelowSixty ==
    (/\ called = "getReadingTimeReadable"
     /\ argKind = "string"
     /\ wordsPerMinute > 0
     /\ getWordCount(text) < 60 * wordsPerMinute) =>
        \E x \in 0..60, y \in 0..59 :
            result = NumberToString(x) \o <<"m", " ">> \o NumberToString(y) \o <<"s">>

\* C16: at a positive speed, with M the whole minutes of reading,
\* getReadingTimeReadable returns "Xd Yh" with X = M div 1440 and
\* Y = (M div 60) mod 24 when M >= 1440, and "Xh Ym" with X = M div 60 and
\* Y = M mod 60 when 60 <= M < 1440.
C16_HoursAndDays ==
    (/\ called = "getReadingTimeReadable"
     /\ argKind = "string"
     /\ wordsPerMinute > 0
     /\ WholeMinutes >= 60) =>
        result = IF WholeMinutes >= 1440
                 THEN NumberToString(WholeMinutes \div 1440) \o <<"d", " ">>
                          \o NumberToString((WholeMinutes \div 60) % 24) \o <<"h">>
                 ELSE NumberToString(WholeMinutes \div 60) \o <<"h", " ">>
                          \o NumberToString(WholeMinutes % 60) \o <<"m">>

\* the longer of the lengths of a word and the search term
LongerLength(word, searchTerm) ==
    IF Len(word) > Len(searchTerm) THEN Len(word) ELSE Len(searchTerm)

\* the characters that stay when the word is edited into the search term:
\* the longer length less the edit distance
KeptLength(word, searchTerm) ==
    LongerLength(word, searchTerm) - levenshteinDistance(toLowerCase(word), searchTerm)

\* floor(similarity * 200) + frequency of an entry
FuzzyScore(entry, searchTerm) ==
    ((200 * KeptLength(entry[1], searchTerm)) \div LongerLength(entry[1], searchTerm))
        + entry[2]

\* C17: an entry that is no exact, prefix, substring or wildcard match is
\* returned if and only if its similarity (longer length - edit distance) /
\* longer length is above 0.6, exactly 0.6 being left out, and the fuzzy
\* entries come in the order of floor(similarity * 200) + frequency.
C17_FuzzyThreshold ==
    (/\ called = "fuzzySearch"
     /\ SearchTermOf(query) # <<>>
     /\ limit >= Len(wordFrequencies)) =>
        /\ \A i \in DOMAIN wordFrequencies :
               TierOf(wordFrequencies[i][1], SearchTermOf(query)) = 1 =>
                   ((\E j \in DOMAIN result : result[j] = wordFrequencies[i])
                    <=> (10 * KeptLength(wordFrequencies[i][1], SearchTermOf(query))
                            > 6 * LongerLength(wordFrequencies[i][1], SearchTermOf(query))))
        /\ \A i, j \in DOMAIN result :
               (/\ i < j
                /\ TierOf(result[i][1], SearchTermOf(query)) = 1
                /\ TierOf(result[j][1], SearchTermOf(query)) = 1) =>
                   FuzzyScore(result[i], SearchTermOf(query))
                       >= FuzzyScore(result[j], SearchTermOf(query))

\* a search has kept fuzzy matches, the later of the table before the
\* earlier, and has left out an entry of similarity 0.6
C17_Witness ==
    /\ called = "fuzzySearch"
    /\ query = Chars("hello")
    /\ \E i \in DOMAIN wordFrequencies : wordFrequencies[i][1] = Chars("hxllx")
    /\ Len(result) >= 2
    /\ result[1][1] = Chars("hxlloo")
    /\ result[2][1] = Chars("hallo")

\* the score fuzzySearch gives an entry under the query
ScoreOf(entry) ==
    Score(entry[1], entry[2], SearchTermOf(query), createPattern(SearchTermOf(query)))

IsPrefixOf(s, t) == Len(s) <= Len(t) /\ s = SubSeq(t, 1, Len(s))

\* C18: for every table, query and limit >= 0 fuzzySearch returns at most
\* limit entries, each a pair of the table with its count unchanged and no
\* more often than the table has it; for a non-blank query the scores do
\* not increase along the result and entries of equal score keep the order
\* of the table; for a blank query the result is the head of the table.
C18_ResultWithinTable ==
    (called = "fuzzySearch" /\ limit >= 0) =>
        /\ Len(result) <= limit
        /\ \A j \in DOMAIN result :
               /\ \E i \in DOMAIN wordFrequencies : result[j] = wordFrequencies[i]
               /\ Cardinality({k \in DOMAIN result : result[k] = result[j]})
                      <= Cardinality({i \in DOMAIN wordFrequencies :
                                         wordFrequencies[i] = result[j]})
        /\ IF SearchTermOf(query) = <<>> THEN IsPrefixOf(result, wordFrequencies)
           ELSE /\ \A i, j \in DOMAIN result :
                       i < j => ScoreOf(result[i]) >= ScoreOf(result[j])
                /\ \A j \in DOMAIN result :
                       IsPrefixOf(SelectSeq(result,
                                            LAMBDA e : ScoreOf(e) = ScoreOf(result[j])),
                                  SelectSeq(wordFrequencies,
                                            LAMBDA e : ScoreOf(e) = ScoreOf(result[j])))

\* a search has cut its matches at the limit and returned two entries of
\* equal score
C18_Witness ==
    /\ called = "fuzzySearch"
    /\ SearchTermOf(query) # <<>>
    /\ Len(wordFrequencies) > limit
    /\ Len(result) = limit
    /\ Len(result) >= 2
    /\ result[1] # result[2]
    /\ ScoreOf(result[1]) = ScoreOf(result[2])

\* the strings one edit away from s: a character deleted, a character
\* replaced by one of the alphabet, or, below the longest length, one of the
\* alphabet inserted
EditNeighbours(s, alphabet, longest) ==
    {SubSeq(s, 1, i - 1) \o SubSeq(s, i + 1, Len(s)) : i \in DOMAIN s}
        \cup {[s EXCEPT ![i] = c] : i \in DOMAIN s, c \in alphabet}
        \cup (IF Len(s) < longest
              THEN {SubSeq(s, 1, i) \o <<c>> \o SubSeq(s, i + 1, Len(s)) :
                       i \in 0..Len(s), c \in alphabet}
              ELSE {})

\* the number of rounds of single edits after which the target is reached
RECURSIVE EditsNeeded(_, _, _, _)
EditsNeeded(reached, target, longest, count) ==
    IF target \in reached THEN count
    ELSE EditsNeeded(reached \cup UNION {EditNeighbours(s, Range(target), longest) :
                                            s \in reached},
                     target, longest, count + 1)

\* the fewest insertions, deletions and substitutions of one character that
\* turn a into b; no shortest way needs a string longer than both or a
\* character b does not have
MinEdits(a, b) == EditsNeeded({a}, b, IF Len(a) > Len(b) THEN Len(a) ELSE Len(b), 0)

\* C19: levenshteinDistance(a, b) is the fewest single-character insertions,
\* deletions and substitutions that turn a into b; it is 0 exactly when
\* a = b, the same for (b, a), the length of the other string when one is
\* empty, and never more than the longer length.
C19_EditDistance ==
    called = "levenshteinDistance" =>
        /\ (Len(text) <= MaxEditLen /\ Len(query) <= MaxEditLen) =>
               result = MinEdits(text, query)
        /\ (text = Chars("kitten") /\ query = Chars("sitting")) => result = 3
        /\ (text = Chars("flaw") /\ query = Chars("lawn")) => result = 2
        /\ (result = 0) <=> (text = query)
        /\ result = levenshteinDistance(query, text)
        /\ text = <<>> => result = Len(query)
        /\ query = <<>> => result = Len(text)
        /\ result <= Len(text) \/ result <= Len(query)

\* the distance of two different strings of different lengths, neither
\* empty, has been computed and is more than one edit
C19_Witness ==
    /\ called = "levenshteinDistance"
    /\ text # <<>>
    /\ query # <<>>
    /\ Len(text) < Len(query)
    /\ Len(query) <= MaxEditLen
    /\ result = 2

\* some auxiliary of the list, of one, two or three words, stands directly
\* before an irregular past participle
AuxiliaryBeforeParticiple(words) ==
    \E i \in DOMAIN words, count \in 1..3 :
        /\ i + count <= Len(words)
        /\ JoinWords(words, i, count) \in AuxiliaryVerbs
        /\ words[i + count] \in IrregularPastParticiples

\* C20: for every auxiliary of the list, of one, two or three words, a
\* sentence in which it is directly followed by an irregular past participle
\* is counted as passive: a text of such sentences only measures 100.
C20_AuxiliaryThenParticiplePassive ==
    (/\ called = "getPassiveVoicePercentage"
     /\ argKind = "string"
     /\ getSentences(text) # <<>>
     /\ \A i \in DOMAIN getSentences(text) :
            AuxiliaryBeforeParticiple(SentenceWords(getSentences(text)[i]))) =>
        result = Finite(100, 1)

\* whether the participle loop takes the word for a past participle
ParticipleSignal(word) ==
    \/ word \in IrregularPastParticiples
    \/ \E ending \in PastParticipleEndings :
           /\ endsWith(word, ending)
           /\ Len(word) > (IF ending = Chars("ed") THEN 3 ELSE 2)

\* the sentence has an auxiliary, and no word from the one after the
\* auxiliary word up to the one distance - 1 words after it is a participle
\* or an adverb of the skip list
FirstParticipleFrom(sentence, distance) ==
    LET words == SentenceWords(sentence)
        auxiliaryIndex == AuxiliaryIndex(words, 1)
    IN  /\ auxiliaryIndex > 0
        /\ \A i \in DOMAIN words :
               (auxiliaryIndex < i /\ i < auxiliaryIndex + distance) =>
                   /\ ~ParticipleSignal(words[i])
                   /\ words[i] \notin SkippedAdverbs

\* C21: the scan for a past participle looks at no more than 5 words after
\* the auxiliary word: a text in whose every sentence the first participle
\* is 6 or more words after the auxiliary, with no adverb of the skip list
\* in between, measures 0.
C21_LookaheadFiveTokens ==
    (/\ called = "getPassiveVoicePercentage"
     /\ argKind = "string"
     /\ \A i \in DOMAIN getSentences(text) :
            FirstParticipleFrom(getSentences(text)[i], 6)) =>
        result = Finite(0, 1)
\* C22: the character classes partition the text: the counts of letters,
\* numbers, whitespace, punctuation and special characters add up to
\* getCharCount(text).
C22_ClassesPartition ==
    (called = "getSpecialCharCount" /\ argKind = "string") =>
        getLettersCharCount(text) + getNumbersCharCount(text)
            + getWhitespaceCharCount(text) + getPunctuationCharCount(text)
            + result.n = getCharCount(text)
\* the positions of a y or Y that stands after a word character and is not
\* followed by one of a, e, i, o, u in either case
VowelYs(t) ==
    {i \in DOMAIN t :
        /\ t[i] \in {"y", "Y"}
        /\ i > 1
        /\ t[i - 1] \in WordChars
        /\ ~(i < Len(t) /\ t[i + 1] \in {"a", "e", "i", "o", "u", "A", "E", "I", "O", "U"})}

C23_TokensBounded ==
    (called = "getWords" /\ argKind = "string") =>
        \A i \in DOMAIN result :
            /\ result[i] # <<>>
            /\ result[i][1] \in WordChars
            /\ result[i][Len(result[i])] \in WordChars
            /\ \A j \in DOMAIN result[i] : result[i][j] \in WordChars \cup {".", "'", "-"}
\* C26: a text with a word is never split into zero sentences: when
\* getWordCount(text) > 0, getSentences(text) has at least one element.
C26_WordsHaveSentence ==
    (called = "getSentences" /\ argKind = "string" /\ getWordCount(text) > 0) =>
        Len(result) >= 1

\* a text of several words, among them terminators, has been split
C26_Witness ==
    /\ called = "getSentences"
    /\ argKind = "string"
    /\ getWordCount(text) >= 2
    /\ \E i \in DOMAIN text : text[i] \in Terminators
    /\ Len(result) >= 1
\* the string without its whitespace and without its . ! ? and ellipsis
\* characters
WithoutSpaceAndTerminators(s) ==
    SelectSeq(s, LAMBDA c : c \notin WhiteSpace \cup Terminators \cup {Ellipsis})

\* the concatenation of the strings of a list
RECURSIVE Concatenation(_)
Concatenation(list) ==
    IF list = <<>> THEN <<>> ELSE Head(list) \o Concatenation(Tail(list))

\* C27: getSentences loses and reorders no content: without whitespace and
\* without . ! ? and ellipsis characters, the concatenation of the sentences
\* is the text.
C27_NoContentLost ==
    (called = "getSentences" /\ argKind = "string") =>
        WithoutSpaceAndTerminators(Concatenation(result))
            = WithoutSpaceAndTerminators(text)

\* a text has been split into several sentences, one of its terminator runs
\* or whitespace characters having been dropped or replaced on the way
C27_Witness ==
    /\ called = "getSentences"
    /\ argKind = "string"
    /\ Len(result) >= 2
    /\ WithoutSpaceAndTerminators(text) # <<>>
    /\ Len(Concatenation(result)) < Len(text)
\* handleClear was the last of handleInput and handleClear to run: only
\* resetStatistics writes "0s" to reading-time, and handleInput writes a
\* text with minutes to it
ClearedSinceInput == display["reading-time"] = TextContent(Chars("0s"))

\* C25: in the App of app.js, from a click on Clear until the next input
\* event the word, sentence and paragraph counts shown are "0", whatever
\* timeouts run in between.
C25_ClearedCountsStayZero ==
    ClearedSinceInput =>
        /\ display["word-count"] = TextContent(<<"0">>)
        /\ display["sentence-count"] = TextContent(<<"0">>)
        /\ display["paragraph-count"] = TextContent(<<"0">>)
\* C28: in ReadingTime, once an input event on speed-input or
\* speed-input-mobile with an integer value has been handled,
\* this.readingSpeed is at least 0 and is the number speed-display shows.
C28_SpeedNeverNegative ==
    display["speed-display"] # Markup =>
        /\ readingSpeed >= 0
        /\ display["speed-display"] = TextContent(toLocaleString(Finite(readingSpeed, 1)))

\* C29: in ReadingTime, once an input event, a click on Clear or a paste has
\* been handled, the clear button is disabled exactly when the text input
\* is empty.
C29_ClearDisabledIffEmpty ==
    inputEvents > 0 =>
        /\ display["clear-btn"] \in {[disabled |-> TRUE], [disabled |-> FALSE]}
        /\ display["clear-btn"].disabled <=> (inputValue = <<>>)

\* a blank text that is not empty is in the input with the button enabled,
\* after a Clear had disabled it
C29_Witness ==
    /\ inputEvents >= 3
    /\ inputValue # <<>>
    /\ trim(inputValue) = <<>>
    /\ display["clear-btn"] = [disabled |-> FALSE]
    /\ display["word-count-display"] = TextContent(<<"0">>)
\* the colour class showReadabilityScore gives the band of a score
ColourOfScore(score) ==
    IF score < 30 THEN "text-red-500"
    ELSE IF score < 50 THEN "text-orange-500"
    ELSE IF score < 60 THEN "text-yellow-500"
    ELSE IF score < 80 THEN "text-green-500"
    ELSE "text-primary"

\* C30: in ReadabilityCalculator, after any sequence of input events the
\* element readability-score has at most one of the five colour classes:
\* for a text that is not blank the class of the Flesch band of the text in
\* the input, for a blank text none.
C30_OneColourClass ==
    inputEvents > 0 =>
        /\ Cardinality(display["readability-score"].classList) <= 1
        /\ display["readability-score"].classList =
               IF Len(trim(inputValue)) = 0 THEN {}
               ELSE {ColourOfScore(textReadability[inputValue].ease)}

====
